---- MODULE Spec2Model ----
(***************************************************************************)
(* A model of the go-athena driver: the query gateway (startQuery,         *)
(* waitOnQuery, stopQuery), the exec/query paths (conn.runQuery,           *)
(* conn.prepareContext, stmtAthena.runQuery), the cursor dispatcher        *)
(* (newRows) and the result cursors (rowsAPI, rowsDL, rowsGzipDL).         *)
(***************************************************************************)
EXTENDS Integers, Sequences, FiniteSets, TLC

(***************************************************************************)
(* Bounds of the model.                                                    *)
(***************************************************************************)
\* largest per-call timeout (seconds) a context carries
MaxTimeout == 2
\* largest number of whole seconds the model lets pass inside one wait
MaxElapsed == 3
\* largest number of GetQueryExecution calls inside one wait
MaxPolls == 3
\* largest number of arguments of one call or execution
MaxArgs == 2

VARIABLES
    ctxDone,      \* the caller's context has been cancelled
    ctxTimeout,   \* per-call timeout value of the context: [ok, val]
    ctxMode,      \* per-call result mode of the context: [ok, val]
    wPc,          \* position of conn.waitOnQuery: "idle", "loop", "ret"
    wQueryID,     \* the execution id waitOnQuery polls
    wTimeout,     \* waitOnQuery's local timeout
    wElapsed,     \* uint(time.Since(start).Seconds())
    wPolls,       \* GetQueryExecution calls issued by this wait
    wLast,        \* last execution state a poll observed ("NONE" before)
    wErr,         \* error returned by waitOnQuery ("nil" is success)
    stopLog,      \* execution ids of the StopQueryExecution calls issued
    stopErrs,     \* the errors the StopQueryExecution calls returned
    pollLog       \* the errors of this wait's GetQueryExecution calls

VARIABLES
    path,         \* "direct" (conn.runQuery) or "prepared" (Prepare + Execute)
    query,        \* the SQL text the caller passes, as a sequence of tokens
    connMode,     \* conn.resultMode
    connTimeout,  \* conn.timeout
    callPc,       \* position of the exec/query call
    startLog,     \* query texts given to StartQueryExecution, in call order
    qNext,        \* next execution id the service hands out
    uuidUsed,     \* identifiers uuid.NewV4 has produced
    stmt,         \* the prepared statement (stmtAthena), NoStmt before
    cfg,          \* the rowsConfig handed to newRows, NoCfg before
    retErr        \* error the call returned ("none" while running)

VARIABLES
    pages,        \* the result pages of the execution: rows per page
    rPc,          \* position of newRows: "idle", "call", "join", "after",
                  \* "drop", "built"
    rKind,        \* the cursor variant newRows constructs
    retRows,      \* the cursor value newRows returned: "nil" or "cursor"
    rowsErr,      \* the error newRows returned ("none" before it returns)
    api,          \* the rowsAPI cursor: out, skipHeaderRow, done
    apiFetched,   \* index of the last page a GetQueryResults call returned
    yielded,      \* rows the API cursor has delivered, in order
    firstNext,    \* result of the first call of Next ("none" before)
    lastNext,     \* result of the latest call of Next ("none" before)
    jI,           \* init's loop counter over the join channel
    jCh,          \* contents of the join channel (capacity 2)
    jCtxDone,     \* init's timeout context is done (expired or cancelled)
    tData,        \* position of the download task
    tDataRes,     \* result the download task reports
    tMeta,        \* position of the metadata task
    tMetaRes,     \* result the metadata task reports
    rRows,        \* the cursor's downloaded rows: [nil, data]
    rCols,        \* the cursor's column metadata: "nil" or "set"
    svcTables,    \* derived (CTAS) tables that exist in the service
    s3Objs        \* what the output location holds for the execution: the
                  \* lines of the CSV object (DL), the data files the
                  \* manifest lists (GzipDL)

VARIABLES
    fnPc,         \* position of a call of a function: "idle", "called"
    fnArg,        \* the arguments of the call
    fnRes         \* the value the call returned

VARIABLES
    clock,        \* whole seconds since the call submitted its query
    jStart        \* the value of clock when init made its timeout context

VARIABLES
    nArgs,        \* number of arguments given to conn.QueryContext
    closeLog,     \* the errors the calls of stmtAthena.Close returned
    execLog,      \* the final states of the DEALLOCATE executions
    svcPrepared   \* names of the prepared statements the service holds

VARIABLES
    oPc,          \* position of each caller of athena.Open
    oValid,       \* whether the caller's Config passes the validation
    oTmp,         \* the counter value a caller read for its increment
    oName,        \* the number in the name the caller formatted, 0: none
    mutex,        \* holder of openFromSessionMutex, 0: unlocked
    openFromSessionCount,  \* the registration counter
    registered    \* the numbers of the names given to sql.Register

ctxVars == <<ctxDone, ctxTimeout, ctxMode>>

openVars == <<oPc, oValid, oTmp, oName, mutex, openFromSessionCount,
              registered>>

driverVars == <<nArgs, closeLog, execLog, svcPrepared>>

timeVars == <<clock, jStart>>

fnVars == <<fnPc, fnArg, fnRes>>

apiVars == <<pages, api, apiFetched, yielded, firstNext, lastNext>>

joinVars == <<jI, jCh, jCtxDone, tData, tDataRes, tMeta, tMetaRes, rRows,
              rCols, svcTables, s3Objs>>

rowsVars == <<rPc, rKind, retRows, rowsErr, apiVars, joinVars>>

waitVars == <<wPc, wQueryID, wTimeout, wElapsed, wPolls, wLast, wErr,
              stopLog, stopErrs, pollLog>>

callVars == <<path, query, connMode, connTimeout, callPc, startLog, qNext,
              uuidUsed, stmt, cfg, retErr>>

vars == <<ctxVars, waitVars, callVars, rowsVars, fnVars, timeVars,
          driverVars, openVars>>

(***************************************************************************)
(* Execution states of the remote service.                                 *)
(***************************************************************************)
NonTerminalStates == {"QUEUED", "RUNNING"}
TerminalStates == {"SUCCEEDED", "FAILED", "CANCELLED"}
ExecStates == NonTerminalStates \cup TerminalStates

QueryIDs == {1}

\* result_mode.go: the ResultMode constants
ResultModeAPI == 0
ResultModeDL == 1
ResultModeGzipDL == 2
ResultModes == {ResultModeAPI, ResultModeDL, ResultModeGzipDL}

\* driver.go: timeOutLimitDefault uint = 1800
timeOutLimitDefault == 1800

(***************************************************************************)
(* Per-call context values.                                                *)
(***************************************************************************)
CtxTimeouts == {[ok |-> FALSE, val |-> 0]}
                 \cup {[ok |-> TRUE, val |-> t] : t \in 0..MaxTimeout}

\* driver.go:217-222: the timeout of the connection is the default, or the
\* timeout parameter of the connection string
ConnTimeouts == {timeOutLimitDefault} \cup 0..MaxTimeout

CtxModes == {[ok |-> FALSE, val |-> 0]}
              \cup {[ok |-> TRUE, val |-> m] : m \in ResultModes}

\* getTimeout: the value and whether it was set
getTimeout(c) == c

\* getResultMode: the value and whether it was set
getResultMode(c) == c

(***************************************************************************)
(* conn.waitOnQuery                                                        *)
(***************************************************************************)
\* the responses GetQueryExecution(ctx, input) can give: a call under a
\* cancelled context fails with the context's error
GetQueryExecution(done) ==
    IF done
    THEN {[err |-> "ctx", qe |-> FALSE, state |-> "NONE"]}
    ELSE {[err |-> "transport", qe |-> FALSE, state |-> "NONE"],
          [err |-> "nil", qe |-> FALSE, state |-> "NONE"]}
         \cup {[err |-> "nil", qe |-> TRUE, state |-> s] : s \in ExecStates}

\* the timeout waitOnQuery applies (conn.go:150-153)
waitTimeout(c) ==
    IF getTimeout(c).ok THEN getTimeout(c).val ELSE timeOutLimitDefault

\* waitStep with Cancelled taken for a successful end
waitStepCancelledOk(resp, elapsed, timeout) ==
    IF resp.err # "nil" THEN resp.err
    ELSE IF ~resp.qe THEN "nilQueryExecution"
    ELSE IF resp.state \in {"SUCCEEDED", "CANCELLED"} THEN "nil"
    ELSE IF resp.state = "FAILED" THEN "failed"
    ELSE IF elapsed > timeout THEN "timeout"
    ELSE "continue"

\* waitStep that tries again after a failed status call
waitStepRetries(resp, elapsed, timeout) ==
    IF resp.err # "nil" THEN "continue"
    ELSE IF ~resp.qe THEN "nilQueryExecution"
    ELSE IF resp.state = "SUCCEEDED" THEN "nil"
    ELSE IF resp.state \in {"FAILED", "CANCELLED"} THEN "failed"
    ELSE IF elapsed > timeout THEN "timeout"
    ELSE "continue"

\* what one iteration of the poll loop decides from a response and the
\* elapsed seconds: the error it returns, or "continue" (conn.go:157-182)
waitStep(resp, elapsed, timeout) ==
    IF resp.err # "nil" THEN resp.err
    ELSE IF ~resp.qe THEN "nilQueryExecution"
    ELSE IF resp.state = "SUCCEEDED" THEN "nil"
    ELSE IF resp.state \in {"FAILED", "CANCELLED"} THEN "failed"
    ELSE IF elapsed > timeout THEN "timeout"
    ELSE "continue"

\* waitStops with the stop call left out
waitStopsNever(outcome) == FALSE

\* stopQuery is called on the timeout path only (conn.go:176-180, 186-193)
waitStops(outcome) == outcome = "timeout"

\* the responses StopQueryExecution(context.Background(), input) can give
StopQueryExecution == {"nil", "stop"}

\* the error of stopQuery is returned in place of the error of the wait
waitReturnStopError(outcome, stopped, stopErr) ==
    IF stopped /\ stopErr # "nil" THEN stopErr ELSE outcome

\* conn.go:176-180: the result of c.stopQuery(queryID) is dropped, the
\* wait returns its own error
waitReturn(outcome, stopped, stopErr) == outcome

\* entry of waitOnQuery(ctx, queryID)
waitOnQueryBegin(q) ==
    /\ wPc = "idle"
    /\ wPc' = "loop"
    /\ wQueryID' = q
    /\ wTimeout' = waitTimeout(ctxTimeout)
    /\ wElapsed' = 0
    /\ wPolls' = 0
    /\ wLast' = "NONE"
    /\ wErr' = "none"
    /\ pollLog' = <<>>
    /\ UNCHANGED <<ctxVars, stopLog, stopErrs>>

\* one iteration of the loop: the status call, the checks, and either a
\* return (after stopQuery on timeout) or the sleep; d is the time that
\* passed since the previous check
waitOnQueryPoll ==
    /\ wPc = "loop"
    /\ wPolls < MaxPolls
    /\ \E d \in 0..1, resp \in GetQueryExecution(ctxDone),
          stopErr \in StopQueryExecution :
        /\ wElapsed + d <= MaxElapsed
        /\ LET el == wElapsed + d
               outcome == waitStep(resp, el, wTimeout)
           IN /\ wElapsed' = el
              /\ wPolls' = wPolls + 1
              /\ wLast' = IF resp.err = "nil" /\ resp.qe
                          THEN resp.state ELSE wLast
              /\ pollLog' = Append(pollLog, resp.err)
              /\ stopLog' = IF waitStops(outcome)
                            THEN Append(stopLog, wQueryID) ELSE stopLog
              /\ stopErrs' = IF waitStops(outcome)
                             THEN Append(stopErrs, stopErr) ELSE stopErrs
              /\ IF outcome = "continue"
                 THEN UNCHANGED <<wPc, wErr>>
                 ELSE /\ wPc' = "ret"
                      /\ wErr' = waitReturn(outcome, waitStops(outcome),
                                            stopErr)
    /\ UNCHANGED <<ctxVars, wQueryID, wTimeout>>

\* the caller cancels the context while the wait is in progress
CtxCancel ==
    /\ wPc = "loop"
    /\ ~ctxDone
    /\ ctxDone' = TRUE
    /\ UNCHANGED <<ctxTimeout, ctxMode, waitVars>>

(***************************************************************************)
(* The values of a call that has not produced them yet.                    *)
(***************************************************************************)
NoStmt == [prepareKey |-> "", numInput |-> 0, ctasTable |-> "",
           afterDownload |-> FALSE, resultMode |-> ResultModeAPI]

NoCfg == [QueryID |-> 0, SkipHeader |-> FALSE, ResultMode |-> ResultModeAPI,
          Timeout |-> 0, AfterDownload |-> FALSE, CTASTable |-> ""]

\* a GetQueryResultsOutput that is nil
NilOut == [nil |-> TRUE, rows |-> <<>>, token |-> 0]

\* a rowsAPI that has not been constructed
NoAPI == [out |-> NilOut, skipHeaderRow |-> FALSE, done |-> FALSE]

\* a downloadedRows pointer that is nil
NoRows == [nil |-> TRUE, data |-> <<>>]

(***************************************************************************)
(* SQL texts, as sequences of whitespace-separated tokens.                 *)
(***************************************************************************)
Queries == {<<"SELECT">>, <<"select", "?">>, <<"SHOW">>,
            <<"CREATE", "TABLE", "AS", "SELECT">>, <<"INSERT", "?">>,
            <<"SELECT", "'?'", "?">>}

UUIDs == {"u1", "u2"}

\* the regular expressions are case-insensitive ((?i))
upper(t) == IF t = "select" THEN "SELECT" ELSE t

\* conn.go:288-292, ddlQueryRegex: (?i)^(ALTER|CREATE|DESCRIBE|DROP|MSCK|SHOW)
isDDLQuery(q) ==
    Len(q) > 0
    /\ upper(q[1]) \in {"ALTER", "CREATE", "DESCRIBE", "DROP", "MSCK", "SHOW"}

\* conn.go:294-296: (?i)^SELECT
isSelectQuery(q) == Len(q) > 0 /\ upper(q[1]) = "SELECT"

\* conn.go:298-300: (?i)^CREATE.+AS\s+SELECT
isCTASQuery(q) ==
    /\ Len(q) > 0
    /\ upper(q[1]) = "CREATE"
    /\ \E i \in 2..(Len(q) - 1) : upper(q[i]) = "AS" /\ upper(q[i + 1]) = "SELECT"

\* conn.go:302-304
isCreatingCTASTable(isSelect, resultMode) ==
    isSelect /\ resultMode = ResultModeGzipDL

\* the question marks in a token: the placeholder is one, and the string
\* literal '?' holds one
questionMarks(t) == IF t \in {"?", "'?'"} THEN 1 ELSE 0

\* len(strings.Split(query, "?")) - 1
RECURSIVE countPlaceholders(_)
countPlaceholders(q) ==
    IF q = <<>> THEN 0
    ELSE questionMarks(Head(q)) + countPlaceholders(Tail(q))

(***************************************************************************)
(* The cursor dispatcher.                                                  *)
(***************************************************************************)
\* rows.go:46-59: the constructor newRows calls for a result mode
newRowsVariant(mode) ==
    IF mode = ResultModeDL THEN "DL"
    ELSE IF mode = ResultModeGzipDL THEN "GzipDL"
    ELSE "API"

(***************************************************************************)
(* conn.runQuery: the direct exec/query path.                              *)
(***************************************************************************)
\* the locals of a finished waitOnQuery are gone
waitOnQueryEnd ==
    /\ wPc' = "idle"
    /\ wQueryID' = 0
    /\ wTimeout' = 0
    /\ wElapsed' = 0
    /\ wPolls' = 0
    /\ wLast' = "NONE"
    /\ wErr' = "none"
    /\ pollLog' = <<>>
    /\ UNCHANGED <<ctxVars, stopLog, stopErrs>>

\* the result mode conn.runQuery puts into the rowsConfig (conn.go:80-83)
runQueryResultMode(q, cMode, xMode) ==
    IF getResultMode(xMode).ok THEN getResultMode(xMode).val ELSE cMode

\* a rowsConfig whose header is skipped for DDL statements
runQueryConfigSkipsDDL(id, q, cMode, xMode, xTimeout) ==
    [QueryID |-> id,
     SkipHeader |-> isDDLQuery(q),
     ResultMode |-> runQueryResultMode(q, cMode, xMode),
     Timeout |-> IF getTimeout(xTimeout).ok
                 THEN getTimeout(xTimeout).val ELSE timeOutLimitDefault,
     AfterDownload |-> FALSE,
     CTASTable |-> ""]

\* the rowsConfig conn.runQuery builds (conn.go:80-104)
runQueryConfig(id, q, cMode, xMode, xTimeout) ==
    [QueryID |-> id,
     SkipHeader |-> ~isDDLQuery(q) /\ ~isCTASQuery(q),
     ResultMode |-> runQueryResultMode(q, cMode, xMode),
     Timeout |-> IF getTimeout(xTimeout).ok
                 THEN getTimeout(xTimeout).val ELSE timeOutLimitDefault,
     AfterDownload |-> FALSE,
     CTASTable |-> ""]

\* conn.go:71-76: startQuery, and on success the entry of waitOnQuery
runQueryStart ==
    /\ path = "direct"
    /\ callPc = "idle"
    /\ startLog' = Append(startLog, query)
    /\ \E ok \in BOOLEAN :
        IF ok
        THEN /\ waitOnQueryBegin(qNext)
             /\ qNext' = qNext + 1
             /\ callPc' = "wait"
             /\ UNCHANGED retErr
        ELSE /\ callPc' = "done"
             /\ retErr' = "start"
             /\ UNCHANGED <<ctxVars, waitVars, qNext>>
    /\ UNCHANGED <<path, query, connMode, connTimeout, uuidUsed, stmt, cfg>>

\* a check of the wait's error that never sees one
waitFailedNever(err) == FALSE

\* conn.go:76-78, stmt.go:139-141: if err := c.waitOnQuery(...); err != nil
waitFailed(err) == err # "nil"

\* conn.go:76-106: waitOnQuery has returned; on success the rowsConfig is
\* built and newRows is called
runQueryAfterWait ==
    /\ path = "direct"
    /\ callPc = "wait"
    /\ wPc = "ret"
    /\ IF waitFailed(wErr)
       THEN /\ callPc' = "done"
            /\ retErr' = wErr
            /\ UNCHANGED cfg
       ELSE /\ callPc' = "newRows"
            /\ cfg' = runQueryConfig(wQueryID, query, connMode, ctxMode,
                                     ctxTimeout)
            /\ UNCHANGED retErr
    /\ waitOnQueryEnd
    /\ UNCHANGED <<path, query, connMode, connTimeout, startLog, qNext,
                   uuidUsed, stmt>>

(***************************************************************************)
(* conn.prepareContext and stmtAthena.runQuery: the prepared path.         *)
(***************************************************************************)
\* the result mode a prepared statement is given (conn.go:217-224)
prepareResultMode(q, cMode, xMode) ==
    IF ~isSelectQuery(q) THEN ResultModeAPI
    ELSE IF getResultMode(xMode).ok THEN getResultMode(xMode).val
    ELSE cMode

\* prepareQuery with a wrapper text that holds a question mark
prepareQueryMarked(q, cMode, xMode, ctas) ==
    IF isCreatingCTASTable(isSelectQuery(q), prepareResultMode(q, cMode, xMode))
    THEN <<"CREATE", "TABLE", ctas, "?", "AS">> \o q
    ELSE q

\* the text conn.prepareContext prepares: the SELECT wrapped into a
\* CREATE TABLE ... AS when a derived table is made (conn.go:229-234)
prepareQuery(q, cMode, xMode, ctas) ==
    IF isCreatingCTASTable(isSelectQuery(q), prepareResultMode(q, cMode, xMode))
    THEN <<"CREATE", "TABLE", ctas, "AS">> \o q
    ELSE q

\* the stmtAthena conn.prepareContext returns (conn.go:226-258); ctas and
\* key are the two fresh identifiers
prepareStmt(q, cMode, xMode, ctas, key) ==
    LET resultMode == prepareResultMode(q, cMode, xMode)
        creating == isCreatingCTASTable(isSelectQuery(q), resultMode)
    IN [prepareKey |-> key,
        numInput |-> countPlaceholders(prepareQuery(q, cMode, xMode, ctas)),
        ctasTable |-> IF creating THEN ctas ELSE "",
        afterDownload |-> creating,
        resultMode |-> resultMode]

\* conn.go:215-245: the statement is put together, the PREPARE text is
\* submitted, and on success waitOnQuery is entered
prepareContextStart ==
    /\ path = "prepared"
    /\ callPc = "idle"
    /\ \E ctas \in UUIDs \ uuidUsed :
       \E key \in UUIDs \ (uuidUsed \cup {ctas}) :
       \E ok \in BOOLEAN :
        LET s == prepareStmt(query, connMode, ctxMode, ctas, key)
        IN /\ uuidUsed' = uuidUsed \cup {key}
                            \cup (IF s.afterDownload THEN {ctas} ELSE {})
           /\ startLog' = Append(startLog,
                  <<"PREPARE", key, "FROM">>
                      \o prepareQuery(query, connMode, ctxMode, ctas))
           /\ IF ok
              THEN /\ waitOnQueryBegin(qNext)
                   /\ qNext' = qNext + 1
                   /\ callPc' = "prepareWait"
                   /\ stmt' = s
                   /\ UNCHANGED retErr
              ELSE /\ callPc' = "done"
                   /\ retErr' = "start"
                   /\ UNCHANGED <<ctxVars, waitVars, qNext, stmt>>
    /\ UNCHANGED <<path, query, connMode, connTimeout, cfg>>

\* conn.go:247-258: the statement is returned once the PREPARE succeeded
prepareContextAfterWait ==
    /\ callPc = "prepareWait"
    /\ wPc = "ret"
    /\ IF wErr # "nil"
       THEN callPc' = "done" /\ retErr' = wErr /\ stmt' = NoStmt
       ELSE callPc' = "prepared" /\ UNCHANGED <<retErr, stmt>>
    /\ waitOnQueryEnd
    /\ UNCHANGED <<path, query, connMode, connTimeout, startLog, qNext,
                   uuidUsed, cfg>>

\* a rowsConfig whose result mode is the one of the execute call's context
stmtRunQueryConfigCtxMode(id, q, s, cTimeout, xTimeout) ==
    [QueryID |-> id,
     SkipHeader |-> ~isDDLQuery(q),
     ResultMode |-> IF getResultMode(ctxMode).ok
                    THEN getResultMode(ctxMode).val ELSE s.resultMode,
     Timeout |-> IF getTimeout(xTimeout).ok
                 THEN getTimeout(xTimeout).val ELSE cTimeout,
     AfterDownload |-> s.afterDownload,
     CTASTable |-> s.ctasTable]

\* the rowsConfig stmtAthena.runQuery builds (stmt.go:112-155)
stmtRunQueryConfig(id, q, s, cTimeout, xTimeout) ==
    [QueryID |-> id,
     SkipHeader |-> ~isDDLQuery(q),
     ResultMode |-> s.resultMode,
     Timeout |-> IF getTimeout(xTimeout).ok
                 THEN getTimeout(xTimeout).val ELSE cTimeout,
     AfterDownload |-> s.afterDownload,
     CTASTable |-> s.ctasTable]

\* an execution that prepares the statement again
makeQueryPrepares(s, params) == <<"PREPARE", s.prepareKey, "FROM">> \o params

\* stmt.go:91-110: the EXECUTE text of a statement for the serialized
\* parameters
makeQuery(s, params) ==
    IF Len(params) > 0
    THEN <<"EXECUTE", s.prepareKey, "USING">> \o params
    ELSE <<"EXECUTE", s.prepareKey>>

\* stmt.go:134-139: the EXECUTE text is submitted and waited for
stmtRunQueryStart ==
    /\ callPc = "prepared"
    /\ startLog' = Append(startLog, makeQuery(stmt, <<>>))
    /\ \E ok \in BOOLEAN :
        IF ok
        THEN /\ waitOnQueryBegin(qNext)
             /\ qNext' = qNext + 1
             /\ callPc' = "executeWait"
             /\ UNCHANGED retErr
        ELSE /\ callPc' = "done"
             /\ retErr' = "start"
             /\ UNCHANGED <<ctxVars, waitVars, qNext>>
    /\ UNCHANGED <<path, query, connMode, connTimeout, uuidUsed, stmt, cfg>>

\* stmt.go:139-155: on success the rowsConfig is built and newRows called
stmtRunQueryAfterWait ==
    /\ callPc = "executeWait"
    /\ wPc = "ret"
    /\ IF waitFailed(wErr)
       THEN /\ callPc' = "done"
            /\ retErr' = wErr
            /\ UNCHANGED cfg
       ELSE /\ callPc' = "newRows"
            /\ cfg' = stmtRunQueryConfig(wQueryID, makeQuery(stmt, <<>>), stmt,
                                         connTimeout, ctxTimeout)
            /\ UNCHANGED retErr
    /\ waitOnQueryEnd
    /\ UNCHANGED <<path, query, connMode, connTimeout, startLog, qNext,
                   uuidUsed, stmt>>

(***************************************************************************)
(* Initial values.                                                         *)
(***************************************************************************)
InitWaitVars ==
    /\ wPc = "idle"
    /\ wQueryID = 0
    /\ wTimeout = 0
    /\ wElapsed = 0
    /\ wPolls = 0
    /\ wLast = "NONE"
    /\ wErr = "none"
    /\ stopLog = <<>>
    /\ stopErrs = <<>>
    /\ pollLog = <<>>

InitRowsVars ==
    /\ pages = <<>>
    /\ rPc = "idle"
    /\ rKind = "none"
    /\ retRows = "nil"
    /\ rowsErr = "none"
    /\ api = NoAPI
    /\ apiFetched = 0
    /\ yielded = <<>>
    /\ firstNext = "none"
    /\ lastNext = "none"
    /\ jI = 0
    /\ jCh = <<>>
    /\ jCtxDone = FALSE
    /\ tData = "idle"
    /\ tDataRes = "none"
    /\ tMeta = "idle"
    /\ tMetaRes = "none"
    /\ rRows = NoRows
    /\ rCols = "nil"
    /\ svcTables = {}
    /\ s3Objs = 0

InitTimeVars ==
    /\ clock = 0
    /\ jStart = 0

\* largest number of callers of athena.Open
MaxOpens == 3

Openers == 1..MaxOpens

\* driver.go:28-31: the counter starts at zero, the mutex unlocked
InitOpenVars ==
    /\ oPc = [p \in Openers |-> "start"]
    /\ oValid = [p \in Openers |-> TRUE]
    /\ oTmp = [p \in Openers |-> 0]
    /\ oName = [p \in Openers |-> 0]
    /\ mutex = 0
    /\ openFromSessionCount = 0
    /\ registered = {}

InitDriverVars ==
    /\ nArgs = 0
    /\ closeLog = <<>>
    /\ execLog = <<>>
    /\ svcPrepared = {}

InitFnVars ==
    /\ fnPc = "idle"
    /\ fnArg = <<>>
    /\ fnRes = <<>>

InitCallVars ==
    /\ path = "direct"
    /\ query = <<"SELECT">>
    /\ connMode = ResultModeAPI
    /\ connTimeout = timeOutLimitDefault
    /\ callPc = "idle"
    /\ startLog = <<>>
    /\ qNext = 1
    /\ uuidUsed = {}
    /\ stmt = NoStmt
    /\ cfg = NoCfg
    /\ retErr = "none"

(***************************************************************************)
(* conn.QueryContext and conn.ExecContext: the entry of the direct path.   *)
(***************************************************************************)
\* the argument test with no argument list ever refused
hasArgsNever(n) == FALSE

\* conn.go:53, 62: len(args) > 0
hasArgs(n) == n > 0

\* conn.go:52-59, 61-68: without arguments the call goes on to runQuery
connQueryContext ==
    /\ ~hasArgs(nArgs)
    /\ runQueryStart

\* conn.go:53-55, 62-64: with arguments the call panics
connQueryContextPanic ==
    /\ path = "direct"
    /\ callPc = "idle"
    /\ hasArgs(nArgs)
    /\ callPc' = "panic"
    /\ UNCHANGED <<path, query, connMode, connTimeout, startLog, qNext,
                   uuidUsed, stmt, cfg, retErr>>
    /\ UNCHANGED <<ctxVars, waitVars>>

(***************************************************************************)
(* Spec: one exec/query call, direct or prepared, up to the call of        *)
(* newRows.                                                                *)
(***************************************************************************)
Init ==
    /\ ctxDone = FALSE
    /\ ctxTimeout \in CtxTimeouts
    /\ ctxMode \in CtxModes
    /\ InitWaitVars
    /\ path \in {"direct", "prepared"}
    /\ query \in Queries
    /\ connMode \in ResultModes
    /\ connTimeout \in ConnTimeouts
    /\ callPc = "idle"
    /\ startLog = <<>>
    /\ qNext = 1
    /\ uuidUsed = {}
    /\ stmt = NoStmt
    /\ cfg = NoCfg
    /\ retErr = "none"
    /\ InitRowsVars
    /\ InitFnVars
    /\ InitTimeVars
    /\ InitOpenVars
    /\ nArgs \in IF path = "direct" THEN 0..MaxArgs ELSE {0}
    /\ closeLog = <<>>
    /\ execLog = <<>>
    /\ svcPrepared = {}

Next ==
    \/ connQueryContext /\ UNCHANGED <<rowsVars, fnVars, timeVars, driverVars, openVars>>
    \/ connQueryContextPanic
          /\ UNCHANGED <<rowsVars, fnVars, timeVars, driverVars, openVars>>
    \/ runQueryAfterWait /\ UNCHANGED <<rowsVars, fnVars, timeVars, driverVars, openVars>>
    \/ prepareContextStart /\ UNCHANGED <<rowsVars, fnVars, timeVars, driverVars, openVars>>
    \/ prepareContextAfterWait /\ UNCHANGED <<rowsVars, fnVars, timeVars, driverVars, openVars>>
    \/ stmtRunQueryStart /\ UNCHANGED <<rowsVars, fnVars, timeVars, driverVars, openVars>>
    \/ stmtRunQueryAfterWait /\ UNCHANGED <<rowsVars, fnVars, timeVars, driverVars, openVars>>
    \/ waitOnQueryPoll /\ UNCHANGED <<callVars, rowsVars, fnVars, timeVars, driverVars, openVars>>
    \/ CtxCancel /\ UNCHANGED <<callVars, rowsVars, fnVars, timeVars, driverVars, openVars>>

Spec == Init /\ [][Next]_vars

\* C4: whenever newRows is called for a statement that is not a SELECT, the
\* rowsConfig makes it build the API cursor, whatever the connection's or
\* the context's result mode, on the direct and on the prepared path.
C4_NonSelectBuildsAPI ==
    (callPc = "newRows" /\ ~isSelectQuery(query))
        => newRowsVariant(cfg.ResultMode) = "API"

(***************************************************************************)
(* SpecWait: one call of conn.waitOnQuery under every context.             *)
(***************************************************************************)
InitWait ==
    /\ ctxDone = FALSE
    /\ ctxTimeout \in CtxTimeouts
    /\ ctxMode = [ok |-> FALSE, val |-> 0]
    /\ InitWaitVars
    /\ InitCallVars
    /\ InitRowsVars
    /\ InitFnVars
    /\ InitTimeVars
    /\ InitOpenVars
    /\ InitDriverVars

NextWait ==
    \/ \E q \in QueryIDs :
          waitOnQueryBegin(q) /\ UNCHANGED <<callVars, rowsVars, fnVars, timeVars, driverVars, openVars>>
    \/ waitOnQueryPoll /\ UNCHANGED <<callVars, rowsVars, fnVars, timeVars, driverVars, openVars>>
    \/ CtxCancel /\ UNCHANGED <<callVars, rowsVars, fnVars, timeVars, driverVars, openVars>>

SpecWait == InitWait /\ [][NextWait]_vars

(***************************************************************************)
(* Claims about conn.waitOnQuery, checked under SpecWait.                  *)
(***************************************************************************)
\* C1: waitOnQuery keeps polling only after a Queued or Running state and
\* stops at the first terminal state: it returns nil exactly when the last
\* observed state is Succeeded, returns the failure error when Failed or
\* Cancelled is observed, and after a non-terminal state it returns only
\* for a reason other than the state.
C1_WaitResultFollowsState ==
    /\ (wPc = "ret" /\ wErr = "nil") => wLast = "SUCCEEDED"
    /\ wLast = "SUCCEEDED" => (wPc = "ret" /\ wErr = "nil")
    /\ wLast \in {"FAILED", "CANCELLED"} => (wPc = "ret" /\ wErr = "failed")
    /\ (wPc = "loop" /\ wPolls > 0) => wLast \in NonTerminalStates
    /\ (wPc = "ret" /\ wLast \in NonTerminalStates)
          => wErr \notin {"nil", "failed"}

\* a wait that polled again after a non-terminal state and then succeeded
C1_Witness ==
    wPc = "ret" /\ wErr = "nil" /\ wPolls >= 2 /\ wLast = "SUCCEEDED"

\* C2: when the polls report only non-terminal states, the loop goes on
\* only while the elapsed seconds do not exceed the timeout; the return
\* with the timeout error comes with exactly one StopQueryExecution, for
\* the polled execution id, and no other return issues a stop call; the
\* timeout error is never the result of a Failed or Cancelled execution.
C2_TimeoutStopsOnce ==
    /\ (wPc = "ret" /\ wErr = "timeout")
          => /\ stopLog = <<wQueryID>>
             /\ wElapsed > wTimeout
             /\ wLast \in NonTerminalStates
    /\ wErr # "timeout" => stopLog = <<>>
    /\ (wPc = "loop" /\ wPolls > 0) => wElapsed <= wTimeout
    /\ (wPc = "ret" /\ wLast \in NonTerminalStates /\ wElapsed > wTimeout
          /\ wErr \notin {"transport", "ctx", "nilQueryExecution"})
          => wErr = "timeout"

\* a wait that saw only non-terminal states and ran into the timeout
C2_Witness ==
    /\ wPc = "ret" /\ wErr = "timeout" /\ wPolls >= 2
    /\ stopLog = <<wQueryID>>

\* C3: a wait that ends because the caller's context was cancelled has
\* issued a StopQueryExecution for the execution and returns the
\* cancellation error.
C3_CancelStopsQuery ==
    (wPc = "ret" /\ ctxDone)
        => (wErr = "ctx" /\ stopLog = <<wQueryID>>)

\* C25: a status call that failed is the last status call of its wait,
\* and the wait has returned with the error of that call.
C25_PollErrorEndsWait ==
    \A i \in 1..Len(pollLog) :
        pollLog[i] # "nil"
            => /\ i = Len(pollLog)
               /\ wPc = "ret"
               /\ wErr = pollLog[i]

\* a wait whose second status call failed in the transport
C25_Witness ==
    /\ wPc = "ret"
    /\ pollLog = <<"nil", "transport">>
    /\ wErr = "transport"

\* C27: a wait that called StopQueryExecution returns the timeout error,
\* whether the stop call succeeded or failed.
C27_StopErrorIgnored ==
    (wPc = "ret" /\ stopErrs # <<>>) => wErr = "timeout"

\* a wait that timed out and whose stop call failed
C27_Witness ==
    /\ wPc = "ret"
    /\ stopErrs = <<"stop">>
    /\ wErr = "timeout"

(***************************************************************************)
(* The API cursor (rowsAPI).                                               *)
(***************************************************************************)
\* largest number of result pages of one execution
MaxPages == 3
\* largest number of rows on one result page
MaxRows == 2

\* the page sequences the service can hold for an execution: the number
\* of rows of each page; every page but the last carries a continuation
\* token
PageSeqs == UNION {[1..n -> 0..MaxRows] : n \in 1..MaxPages}

\* the rows of page idx; a row is named by its page and its position
pageRows(pgs, idx) == [j \in 1..pgs[idx] |-> <<idx, j>>]

\* the output for page idx: its rows and the token of the page after it
\* (0 stands for no NextToken)
pageOut(pgs, idx) ==
    [nil |-> FALSE,
     rows |-> pageRows(pgs, idx),
     token |-> IF idx < Len(pgs) THEN idx + 1 ELSE 0]

\* what GetQueryResults can answer to a request with the token: an error
\* with no output, or the page the token names (no token: the first page)
GetQueryResults(pgs, token) ==
    {[err |-> "fetch", out |-> NilOut],
     [err |-> "nil", out |-> pageOut(pgs, IF token = 0 THEN 1 ELSE token)]}

\* the rows of the pages 1..n, in page order
RECURSIVE rowsUpTo(_, _)
rowsUpTo(pgs, n) ==
    IF n = 0 THEN <<>> ELSE rowsUpTo(pgs, n - 1) \o pageRows(pgs, n)

\* rows_api.go:43-67: fetchNextPage on the cursor r with the service's
\* response: the cursor after the call, whether iteration continues, and
\* the error
fetchNextPage(r, resp) ==
    IF resp.err # "nil"
    THEN [r |-> [r EXCEPT !.out = resp.out], cont |-> FALSE, err |-> resp.err]
    ELSE LET rowOffset == IF r.skipHeaderRow THEN 1 ELSE 0
             r1 == [r EXCEPT !.out = resp.out, !.skipHeaderRow = FALSE]
         IN IF Len(resp.out.rows) < rowOffset + 1
            THEN [r |-> r1, cont |-> FALSE, err |-> "nil"]
            ELSE [r |-> [r1 EXCEPT !.out.rows =
                            SubSeq(resp.out.rows, rowOffset + 1,
                                   Len(resp.out.rows))],
                  cont |-> TRUE, err |-> "nil"]

\* rows_api.go:87-96: the shift to the next row of the buffered page
shiftRow(r) ==
    [r |-> [r EXCEPT !.out.rows = Tail(r.out.rows)],
     res |-> "row", row |-> <<Head(r.out.rows)>>, fetched |-> FALSE]

\* nextAPI with a failed fetch reported as the end of the rows
nextAPISwallowsError(r, resp) ==
    IF Len(r.out.rows) = 0
    THEN IF r.out.token = 0
         THEN [r |-> r, res |-> "EOF", row |-> <<>>, fetched |-> FALSE]
         ELSE LET f == fetchNextPage(r, resp)
              IN IF f.err # "nil" \/ ~f.cont
                 THEN [r |-> f.r, res |-> "EOF", row |-> <<>>,
                       fetched |-> f.err = "nil"]
                 ELSE [shiftRow(f.r) EXCEPT !.fetched = TRUE]
    ELSE shiftRow(r)

\* rows_api.go:69-96: nextAPI on the cursor r; resp is the service's
\* response in case a page is fetched. The result is "row" (with the row),
\* "EOF" or the error.
nextAPI(r, resp) ==
    IF Len(r.out.rows) = 0
    THEN IF r.out.token = 0
         THEN [r |-> r, res |-> "EOF", row |-> <<>>, fetched |-> FALSE]
         ELSE LET f == fetchNextPage(r, resp)
              IN IF f.err # "nil"
                 THEN [r |-> f.r, res |-> f.err, row |-> <<>>,
                       fetched |-> FALSE]
                 ELSE IF ~f.cont
                 THEN [r |-> f.r, res |-> "EOF", row |-> <<>>,
                       fetched |-> TRUE]
                 ELSE [shiftRow(f.r) EXCEPT !.fetched = TRUE]
    ELSE shiftRow(r)

\* rows.go:46-59, rows_api.go:22-41: newRows dispatches to newRowsAPI, which
\* makes the cursor and fetches the first page; the cursor is returned
\* together with init's error
newRowsAPI ==
    /\ rPc = "call"
    /\ newRowsVariant(cfg.ResultMode) = "API"
    /\ \E resp \in GetQueryResults(pages, 0) :
        LET r0 == [out |-> NilOut, skipHeaderRow |-> cfg.SkipHeader,
                   done |-> FALSE]
            f == fetchNextPage(r0, resp)
        IN /\ api' = IF f.err # "nil" THEN f.r
                     ELSE [f.r EXCEPT !.done = ~f.cont]
           /\ apiFetched' = IF f.err = "nil" THEN 1 ELSE 0
           /\ rowsErr' = f.err
    /\ rKind' = "API"
    /\ retRows' = "cursor"
    /\ rPc' = "built"
    /\ UNCHANGED <<pages, yielded, firstNext, lastNext, joinVars>>
    /\ UNCHANGED <<ctxVars, waitVars, callVars>>

\* rows_api.go:115-117: Next on a cursor whose construction succeeded; the
\* caller stops calling Next at the first EOF or error
rowsAPINext ==
    /\ rPc = "built"
    /\ rKind = "API"
    /\ rowsErr = "nil"
    /\ lastNext \in {"none", "row"}
    /\ \E resp \in GetQueryResults(pages, api.out.token) :
        LET n == nextAPI(api, resp)
        IN /\ api' = n.r
           /\ yielded' = yielded \o n.row
           /\ apiFetched' = IF n.fetched THEN api.out.token ELSE apiFetched
           /\ lastNext' = n.res
           /\ firstNext' = IF firstNext = "none" THEN n.res ELSE firstNext
    /\ UNCHANGED <<pages, rPc, rKind, retRows, rowsErr, joinVars>>
    /\ UNCHANGED <<ctxVars, waitVars, callVars>>

(***************************************************************************)
(* The download cursors (rowsDL, rowsGzipDL): construction joins two       *)
(* concurrent tasks over a channel of capacity 2.                          *)
(***************************************************************************)
\* largest number of data files a manifest lists
MaxFiles == 2

\* make(chan error, 2)
joinChanCap == 2

\* the loop of init with a single receive
joinDoneAfterOne(i) == i >= 1

\* rows_gzip.go:60, rows_dl.go:316: the loop of init ends after two receives
joinDone(i) == i >= 2

\* a loop of init that takes every received result for a success
joinReceivedIgnoresError(e) == "nil"

\* the value init returns for a received result: the first error ends it
joinReceived(e) == e

\* newRows (rows.go:50-53) dispatches to newRowsDL or newRowsGzipDL
\* (rows_dl.go:293-314, rows_gzip.go:34-58): the cursor is made and init
\* starts the two tasks under a context with the timeout
newRowsJoin ==
    /\ rPc = "call"
    /\ newRowsVariant(cfg.ResultMode) \in {"DL", "GzipDL"}
    /\ rKind' = newRowsVariant(cfg.ResultMode)
    /\ rPc' = "join"
    /\ jI' = 0
    /\ jCh' = <<>>
    /\ jCtxDone' = FALSE
    /\ tData' = "run"
    /\ tMeta' = "run"
    /\ UNCHANGED <<retRows, rowsErr, apiVars, tDataRes, tMetaRes, rRows,
                   rCols, svcTables, s3Objs>>
    /\ UNCHANGED <<ctxVars, waitVars, callVars>>

\* init returns e to the constructor, which returns the cursor and e to
\* newRows and its caller; the deferred cancel() ends init's context
joinReturn(e) ==
    /\ rPc' = "built"
    /\ retRows' = "cursor"
    /\ rowsErr' = e
    /\ jCtxDone' = TRUE

\* rows_dl.go:338-367, downloadCsv: the CSV object is downloaded under
\* context.Background() and parsed; all lines but the first become the
\* cursor's rows. The download or the parse may fail.
downloadCsv ==
    /\ rKind = "DL"
    /\ tData = "run"
    /\ \/ /\ tDataRes' = "dataErr"
          /\ UNCHANGED rRows
       \/ /\ tDataRes' = "nil"
          /\ rRows' = [nil |-> FALSE,
                       data |-> [j \in 1..(s3Objs - 1) |-> <<1, j + 1>>]]
    /\ tData' = "send"
    /\ UNCHANGED <<rPc, rKind, retRows, rowsErr, apiVars, jI, jCh, jCtxDone,
                   tMeta, tMetaRes, rCols, svcTables, s3Objs>>
    /\ UNCHANGED <<ctxVars, waitVars, callVars>>

\* rows_gzip.go:90-143, downloadCompressedData: the manifest and then each
\* listed file are downloaded under context.Background(); the records of
\* each file are appended to the cursor's rows as soon as it is decoded.
\* failAt = 0: the manifest fails; failAt = k <= nFiles: file k fails;
\* failAt = nFiles + 1: nothing fails.
downloadCompressedData ==
    /\ rKind = "GzipDL"
    /\ tData = "run"
    /\ \E failAt \in 0..(s3Objs + 1) :
        LET nFiles == s3Objs
            got == IF failAt = 0 THEN 0
                      ELSE IF failAt <= nFiles THEN failAt - 1 ELSE nFiles
        IN /\ tDataRes' = IF failAt <= nFiles THEN "dataErr" ELSE "nil"
           /\ rRows' = IF got = 0 THEN rRows
                       ELSE [nil |-> FALSE,
                             data |-> [f \in 1..got |-> <<f, 1>>]]
    /\ tData' = "send"
    /\ UNCHANGED <<rPc, rKind, retRows, rowsErr, apiVars, jI, jCh, jCtxDone,
                   tMeta, tMetaRes, rCols, svcTables, s3Objs>>
    /\ UNCHANGED <<ctxVars, waitVars, callVars>>

\* rows_dl.go:329-336, rows_gzip.go:81-88: the download task sends its
\* result on the channel
downloadSend ==
    /\ tData = "send"
    /\ Len(jCh) < joinChanCap
    /\ jCh' = Append(jCh, tDataRes)
    /\ tData' = "done"
    /\ UNCHANGED <<rPc, rKind, retRows, rowsErr, apiVars, jI, jCtxDone,
                   tDataRes, tMeta, tMetaRes, rRows, rCols, svcTables, s3Objs>>
    /\ UNCHANGED <<ctxVars, waitVars, callVars>>

\* rows_dl.go:369-376, getQueryResultsAsyncForCsv, and rows_gzip.go:145-160,
\* getTableAsync: the metadata call runs under init's context and fails
\* once that context is done; on success the column metadata is stored
metadataFetch ==
    /\ rKind \in {"DL", "GzipDL"}
    /\ tMeta = "run"
    /\ \E ok \in BOOLEAN :
        /\ jCtxDone => ~ok
        /\ tMetaRes' = IF ok THEN "nil" ELSE "metaErr"
        /\ rCols' = IF ok THEN "set"
                    ELSE IF rKind = "DL" THEN "nil" ELSE rCols
    /\ tMeta' = "send"
    /\ UNCHANGED <<rPc, rKind, retRows, rowsErr, apiVars, jI, jCh, jCtxDone,
                   tData, tDataRes, rRows, svcTables, s3Objs>>
    /\ UNCHANGED <<ctxVars, waitVars, callVars>>

\* the metadata task sends its result on the channel
metadataSend ==
    /\ tMeta = "send"
    /\ Len(jCh) < joinChanCap
    /\ jCh' = Append(jCh, tMetaRes)
    /\ tMeta' = "done"
    /\ UNCHANGED <<rPc, rKind, retRows, rowsErr, apiVars, jI, jCtxDone,
                   tData, tDataRes, tMetaRes, rRows, rCols, svcTables, s3Objs>>
    /\ UNCHANGED <<ctxVars, waitVars, callVars>>

\* the timeout of init's context expires
joinDeadline ==
    /\ rPc = "join"
    /\ ~jCtxDone
    /\ jCtxDone' = TRUE
    /\ UNCHANGED <<rPc, rKind, retRows, rowsErr, apiVars, jI, jCh, tData,
                   tDataRes, tMeta, tMetaRes, rRows, rCols, svcTables, s3Objs>>
    /\ UNCHANGED <<ctxVars, waitVars, callVars>>

\* rows_gzip.go:60-69, rows_dl.go:316-326: the select of init's loop takes
\* the context's end
joinRecvDone ==
    /\ rPc = "join"
    /\ jCtxDone
    /\ joinReturn("deadline")
    /\ UNCHANGED <<rKind, apiVars, jI, jCh, tData, tDataRes, tMeta, tMetaRes,
                   rRows, rCols, svcTables, s3Objs>>
    /\ UNCHANGED <<ctxVars, waitVars, callVars>>

\* the select of init's loop takes a result from the channel: an error
\* ends init; after the last receive rowsDL.init returns nil and
\* rowsGzipDL.init goes on to the cleanup (rows_gzip.go:71-78)
joinRecv ==
    /\ rPc = "join"
    /\ jCh # <<>>
    /\ jCh' = Tail(jCh)
    /\ IF joinReceived(Head(jCh)) # "nil"
       THEN /\ joinReturn(joinReceived(Head(jCh)))
            /\ UNCHANGED jI
       ELSE /\ jI' = jI + 1
            /\ IF ~joinDone(jI + 1)
               THEN UNCHANGED <<rPc, retRows, rowsErr, jCtxDone>>
               ELSE IF rKind = "GzipDL" /\ cfg.AfterDownload
               THEN rPc' = "after" /\ UNCHANGED <<retRows, rowsErr, jCtxDone>>
               ELSE joinReturn("nil")
    /\ UNCHANGED <<rKind, apiVars, tData, tDataRes, tMeta, tMetaRes, rRows,
                   rCols, svcTables, s3Objs>>
    /\ UNCHANGED <<ctxVars, waitVars, callVars>>

\* conn.go:109-115 called from rows_gzip.go:72-76: the cleanup callback
\* submits DROP TABLE and, when that succeeded, waits for it
dropCTASTableStart ==
    /\ rPc = "after"
    /\ startLog' = Append(startLog, <<"DROP", "TABLE", cfg.CTASTable>>)
    /\ \E ok \in BOOLEAN :
        IF ok
        THEN /\ waitOnQueryBegin(qNext)
             /\ qNext' = qNext + 1
             /\ rPc' = "drop"
             /\ UNCHANGED <<retRows, rowsErr, jCtxDone>>
        ELSE /\ joinReturn("start")
             /\ UNCHANGED <<ctxVars, waitVars, qNext>>
    /\ UNCHANGED <<rKind, apiVars, jI, jCh, tData, tDataRes, tMeta, tMetaRes,
                   rRows, rCols, svcTables, s3Objs>>
    /\ UNCHANGED <<path, query, connMode, connTimeout, callPc, uuidUsed, stmt,
                   cfg, retErr>>

\* conn.go:115, rows_gzip.go:73-78: the wait for the DROP has returned;
\* init returns its error, or nil when the table was dropped
dropCTASTableAfterWait ==
    /\ rPc = "drop"
    /\ wPc = "ret"
    /\ svcTables' = IF wErr = "nil" THEN svcTables \ {cfg.CTASTable}
                    ELSE svcTables
    /\ joinReturn(wErr)
    /\ waitOnQueryEnd
    /\ UNCHANGED <<rKind, apiVars, jI, jCh, tData, tDataRes, tMeta, tMetaRes,
                   rRows, rCols, s3Objs>>
    /\ UNCHANGED callVars

(***************************************************************************)
(* SpecRows: one call of newRows with the rowsConfig of a finished         *)
(* exec/query call, direct or prepared, and the use of the cursor.         *)
(***************************************************************************)
\* the call state of conn.runQuery at its call of newRows (conn.go:106)
InitRowsDirect ==
    /\ path = "direct"
    /\ stmt = NoStmt
    /\ uuidUsed = {}
    /\ startLog = <<query>>
    /\ qNext = 2
    /\ cfg = runQueryConfig(1, query, connMode, ctxMode, ctxTimeout)

\* the call state of stmtAthena.runQuery at its call of newRows
\* (stmt.go:155), after conn.prepareContext made the statement
InitRowsPrepared ==
    /\ path = "prepared"
    /\ stmt = prepareStmt(query, connMode, ctxMode, "u1", "u2")
    /\ uuidUsed = {"u2"} \cup (IF stmt.afterDownload THEN {"u1"} ELSE {})
    /\ startLog = << <<"PREPARE", "u2", "FROM">>
                        \o prepareQuery(query, connMode, ctxMode, "u1"),
                     makeQuery(stmt, <<>>) >>
    /\ qNext = 3
    /\ cfg = stmtRunQueryConfig(2, makeQuery(stmt, <<>>), stmt, connTimeout,
                                ctxTimeout)

InitRows ==
    /\ ctxDone = FALSE
    /\ ctxTimeout \in CtxTimeouts
    /\ ctxMode \in CtxModes
    /\ InitWaitVars
    /\ query \in Queries
    /\ connMode \in ResultModes
    /\ connTimeout \in ConnTimeouts
    /\ callPc = "newRows"
    /\ retErr = "none"
    /\ InitRowsDirect \/ InitRowsPrepared
    /\ rPc = "call"
    /\ rKind = "none"
    /\ retRows = "nil"
    /\ rowsErr = "none"
    /\ pages \in IF newRowsVariant(cfg.ResultMode) = "API"
                 THEN PageSeqs ELSE {<<>>}
    /\ api = NoAPI
    /\ apiFetched = 0
    /\ yielded = <<>>
    /\ firstNext = "none"
    /\ lastNext = "none"
    /\ jI = 0
    /\ jCh = <<>>
    /\ jCtxDone = FALSE
    /\ tData = "idle"
    /\ tDataRes = "none"
    /\ tMeta = "idle"
    /\ tMetaRes = "none"
    /\ rRows = NoRows
    /\ rCols = "nil"
    /\ svcTables = IF cfg.CTASTable = "" THEN {} ELSE {cfg.CTASTable}
    /\ s3Objs \in IF newRowsVariant(cfg.ResultMode) = "DL"
                  THEN 1..(MaxRows + 1)
                  ELSE IF newRowsVariant(cfg.ResultMode) = "GzipDL"
                  THEN 0..MaxFiles ELSE {0}
    /\ InitFnVars
    /\ InitTimeVars
    /\ InitOpenVars
    /\ InitDriverVars

NextRows ==
    \/ newRowsAPI /\ UNCHANGED <<fnVars, timeVars, driverVars, openVars>>
    \/ rowsAPINext /\ UNCHANGED <<fnVars, timeVars, driverVars, openVars>>
    \/ newRowsJoin /\ UNCHANGED <<fnVars, timeVars, driverVars, openVars>>
    \/ downloadCsv /\ UNCHANGED <<fnVars, timeVars, driverVars, openVars>>
    \/ downloadCompressedData /\ UNCHANGED <<fnVars, timeVars, driverVars, openVars>>
    \/ downloadSend /\ UNCHANGED <<fnVars, timeVars, driverVars, openVars>>
    \/ metadataFetch /\ UNCHANGED <<fnVars, timeVars, driverVars, openVars>>
    \/ metadataSend /\ UNCHANGED <<fnVars, timeVars, driverVars, openVars>>
    \/ joinDeadline /\ UNCHANGED <<fnVars, timeVars, driverVars, openVars>>
    \/ joinRecvDone /\ UNCHANGED <<fnVars, timeVars, driverVars, openVars>>
    \/ joinRecv /\ UNCHANGED <<fnVars, timeVars, driverVars, openVars>>
    \/ dropCTASTableStart /\ UNCHANGED <<fnVars, timeVars, driverVars, openVars>>
    \/ dropCTASTableAfterWait /\ UNCHANGED <<fnVars, timeVars, driverVars, openVars>>
    \/ waitOnQueryPoll /\ UNCHANGED <<callVars, rowsVars, fnVars, timeVars, driverVars, openVars>>
    \/ CtxCancel /\ UNCHANGED <<callVars, rowsVars, fnVars, timeVars, driverVars, openVars>>

SpecRows == InitRows /\ [][NextRows]_vars

(***************************************************************************)
(* Claims about newRows and the cursors, checked under SpecRows.           *)
(***************************************************************************)
\* the rows the API cursor has to deliver: every row of every page in page
\* order, without the first row of the first page when the header is
\* skipped
apiExpected ==
    LET all == rowsUpTo(pages, Len(pages))
    IN IF cfg.SkipHeader /\ all # <<>> THEN Tail(all) ELSE all

\* s is a prefix of t
isPrefix(s, t) == Len(s) <= Len(t) /\ s = SubSeq(t, 1, Len(s))

\* C5: once the construction of a Derived-Table cursor has ended, with or
\* without an error, the derived table made for the query exists no more.
C5_CTASTableDropped ==
    (rPc = "built" /\ cfg.CTASTable # "") => cfg.CTASTable \notin svcTables

drops == SelectSeq(startLog, LAMBDA e : e[1] = "DROP")

tasksStopOnDeadline ==
    /\ (jCtxDone /\ tData = "run" /\ tData' = "send") => tDataRes' # "nil"
    /\ (jCtxDone /\ tMeta = "run" /\ tMeta' = "send") => tMetaRes' # "nil"

\* C29: once the deadline of the join has expired, neither the download
\* nor the metadata call completes: each ends with an error; and when
\* init's select takes the end of the context, the construction returns
\* the deadline error.
C29_DeadlineCancelsBothTasks ==
    /\ [][tasksStopOnDeadline]_vars
    /\ [][(rPc = "join" /\ rPc' = "built" /\ jCh' = jCh)
            => rowsErr' = "deadline"]_vars

\* C7: when newRows returns an error, the cursor value it returns is nil.
C7_NoCursorOnError ==
    (rPc = "built" /\ rowsErr # "nil") => retRows = "nil"

\* C8: the API cursor delivers the rows of all pages in page order, each
\* once, without the first row of the first page when the header is
\* skipped, and reports EOF only after the last of them.
C8_AllRowsInOrder ==
    rKind = "API"
        => /\ isPrefix(yielded, apiExpected)
           /\ lastNext = "EOF" => yielded = apiExpected

\* C9: with the header skipped and a result whose only row is the header,
\* the first Next reports EOF and no row is delivered.
C9_HeaderOnlyYieldsNothing ==
    (rKind = "API" /\ cfg.SkipHeader /\ pages = <<1>>)
        => (yielded = <<>> /\ firstNext \in {"none", "EOF"})

\* C10: a Next whose page fetch fails returns that error, and by then every
\* row of the pages fetched before has been delivered (the header row
\* aside, when it is skipped).
C10_FetchErrorAfterRows ==
    (rPc = "built" /\ rKind = "API" /\ rowsErr = "nil")
        => /\ api.out.nil <=> lastNext = "fetch"
           /\ api.out.nil
                => LET all == rowsUpTo(pages, apiFetched)
                   IN \/ yielded = all
                      \/ cfg.SkipHeader /\ all # <<>> /\ yielded = Tail(all)

\* the fetch of the third page failed after the rows of two pages
C10_Witness ==
    /\ rKind = "API" /\ cfg.SkipHeader /\ Len(pages) = 3
    /\ pages[1] = 2 /\ pages[2] >= 1
    /\ lastNext = "fetch" /\ apiFetched = 2
    /\ Len(yielded) = pages[1] + pages[2] - 1

\* a Next that fetches a page finds the buffer empty and asks for the
\* page the token of the latest page names
fetchUsesLatestToken ==
    (rKind = "API" /\ rPc = "built" /\ apiFetched' # apiFetched)
        => /\ Len(api.out.rows) = 0
           /\ api.out.token # 0
           /\ apiFetched' = api.out.token

\* C30: Next fetches a page only when the buffer is empty, with the
\* continuation token of the page fetched last, and it reports EOF only
\* when the buffer is empty and the page fetched last carried no
\* continuation token.
C30_EOFOnlyWithoutToken ==
    /\ [][fetchUsesLatestToken]_vars
    /\ []((rKind = "API" /\ lastNext = "EOF")
            => (Len(api.out.rows) = 0 /\ api.out.token = 0))

\* once the constructor has returned, a step leaves the cursor's rows
\* buffer and column metadata as they are
noWriteAfterReturn ==
    (rKind \in {"DL", "GzipDL"} /\ rPc = "built")
        => (rRows' = rRows /\ rCols' = rCols)

\* C39: after a download-based cursor constructor has returned, on any
\* return path, no task writes to the downloaded rows buffer or the column
\* metadata of the cursor.
C39_NoWriteAfterReturn == [][noWriteAfterReturn]_vars

\* whether the header is skipped for the statement of the call: a direct
\* statement that is neither DDL nor CREATE TABLE ... AS SELECT
\* (conn.go:100), and every EXECUTE of a prepared statement (stmt.go:146)
skipsHeader ==
    IF path = "direct" THEN ~isDDLQuery(query) /\ ~isCTASQuery(query)
    ELSE TRUE

\* an API cursor right after its construction succeeded
apiBuilt ==
    rKind = "API" /\ rPc = "built" /\ rowsErr = "nil" /\ lastNext = "none"

ResultSetMetadata(pgs) == <<"ColumnInfo", Len(pgs)>>

\* rows_api.go:98-113: Columns and ColumnTypeDatabaseTypeName read
\* r.out.ResultSet.ResultSetMetadata.ColumnInfo of the output the cursor
\* holds; without a result set the dereference panics
Columns(r, pgs) ==
    IF r.out.nil THEN [panic |-> TRUE, columns |-> <<>>]
    ELSE [panic |-> FALSE, columns |-> ResultSetMetadata(pgs)]

\* C33: from its construction on, whatever pages are fetched and whether
\* or not a fetch fails, an API cursor reports the column descriptors of
\* the first page's metadata.
C33_ColumnsFixedAtConstruction ==
    (rKind = "API" /\ rPc = "built" /\ rowsErr = "nil")
        => Columns(api, pages) =
              [panic |-> FALSE, columns |-> ResultSetMetadata(pages)]

\* a call of Next that returns the error of a failed fetch leaves the
\* cursor as it was
failedFetchKeepsCursor ==
    (rKind = "API" /\ lastNext # "fetch" /\ lastNext' = "fetch")
        => api' = api

\* C37: a failed page fetch leaves the API cursor's state unchanged: the
\* page fetched before, its column metadata and its continuation token are
\* still in place.
C37_FailedFetchKeepsState == [][failedFetchKeepsCursor]_vars

(***************************************************************************)
(* The CSV reader of the Bulk-Download cursor (getRecordsForDL).           *)
(* A line is a sequence of characters: "q" is the double quote, "c" the    *)
(* comma, "a" any other character, "E" utf8.RuneError.                     *)
(***************************************************************************)
\* largest number of fields of a CSV line
MaxFields == 3
\* largest number of lines of a CSV object
MaxLines == 1

\* the fields the service writes: unquoted (empty or not) and quoted
\* (empty, plain, with a comma inside, with a comma first)
CsvFields ==
    {[quoted |-> FALSE, val |-> <<>>],
     [quoted |-> FALSE, val |-> <<"a">>],
     [quoted |-> TRUE, val |-> <<>>],
     [quoted |-> TRUE, val |-> <<"a">>],
     [quoted |-> TRUE, val |-> <<"a", "c", "a">>],
     [quoted |-> TRUE, val |-> <<"c", "a">>]}

\* the lines of fields the service writes
CsvRecords == UNION {[1..n -> CsvFields] : n \in 1..MaxFields}

\* the characters of a field as the service writes it
csvField(f) == IF f.quoted THEN <<"q">> \o f.val \o <<"q">> ELSE f.val

\* the characters of a line: its fields joined by commas
RECURSIVE csvLine(_)
csvLine(rec) ==
    IF Len(rec) = 1 THEN csvField(rec[1])
    ELSE csvField(rec[1]) \o <<"c">> \o csvLine(Tail(rec))

\* field[len(field)-1:] == string('"')
endsWithQuote(field) == Len(field) > 0 /\ field[Len(field)] = "q"

\* field[1 : len(field)-1]; the slice expression panics when len(field) = 1
stripQuotes(field) == SubSeq(field, 2, Len(field) - 1)

\* rows_dl.go:450, 468: isNil := !useDoubleQuote && len(field) == 0
fieldIsNil(useDoubleQuote, field) == ~useDoubleQuote /\ Len(field) = 0

\* rows_dl.go:430-477: the loop over the runes of one line, from the state
\* (b, useDoubleQuote, field, record) on; delimiter is false at the start
\* of every iteration. The result is the record, or a panic.
RECURSIVE scanLine(_, _, _, _)
scanLine(b, useDoubleQuote, field, record) ==
    LET r == IF b = <<>> THEN "E" ELSE Head(b)
        width == IF b = <<>> THEN 0 ELSE 1
        udq == IF Len(field) = 0 THEN r = "q" ELSE useDoubleQuote
        closing == r = "c" /\ udq /\ endsWithQuote(field)
        delimiter == r = "c" /\ (~udq \/ closing)
        panic1 == closing /\ Len(field) = 1
        f1 == IF closing THEN stripQuotes(field) ELSE field
        rec1 == IF delimiter
                THEN Append(record, [isNil |-> fieldIsNil(udq, f1), val |-> f1])
                ELSE record
        f2 == IF delimiter THEN <<>> ELSE f1 \o <<r>>
        last == width >= Len(b)
        strip == udq /\ endsWithQuote(f2)
        panic2 == last /\ strip /\ Len(f2) = 1
        f3 == IF strip THEN stripQuotes(f2) ELSE f2
    IN IF panic1 \/ panic2 THEN [panic |-> TRUE, record |-> <<>>]
       ELSE IF last
       THEN [panic |-> FALSE,
             record |-> Append(rec1, [isNil |-> fieldIsNil(udq, f3),
                                      val |-> f3])]
       ELSE scanLine(Tail(b), udq, f2, rec1)

\* rows_dl.go:417-482: every line the scanner delivers becomes a record
getRecordsForDL(lines) ==
    LET recs == [i \in 1..Len(lines) |-> scanLine(lines[i], FALSE, <<>>, <<>>)]
    IN IF \E i \in 1..Len(lines) : recs[i].panic
       THEN [panic |-> TRUE, records |-> <<>>]
       ELSE [panic |-> FALSE,
             records |-> [i \in 1..Len(lines) |-> recs[i].record]]

\* the CSV object of fnArg is read
getRecordsForDLCall ==
    /\ fnPc = "idle"
    /\ fnPc' = "called"
    /\ fnRes' = getRecordsForDL([i \in 1..Len(fnArg) |-> csvLine(fnArg[i])])
    /\ UNCHANGED fnArg
    /\ UNCHANGED <<ctxVars, waitVars, callVars, rowsVars, timeVars,
                   driverVars, openVars>>

InitCsv ==
    /\ ctxDone = FALSE
    /\ ctxTimeout = [ok |-> FALSE, val |-> 0]
    /\ ctxMode = [ok |-> FALSE, val |-> 0]
    /\ InitWaitVars
    /\ InitCallVars
    /\ InitRowsVars
    /\ fnPc = "idle"
    /\ fnArg \in UNION {[1..n -> CsvRecords] : n \in 1..MaxLines}
    /\ fnRes = <<>>
    /\ InitTimeVars
    /\ InitOpenVars
    /\ InitDriverVars

NextCsv == getRecordsForDLCall

SpecCsv == InitCsv /\ [][NextCsv]_vars

\* the field the reader has to deliver for a written field
csvExpected(f) == [isNil |-> ~f.quoted /\ f.val = <<>>, val |-> f.val]

\* C11: for every line, the reader delivers one field per written field, in
\* order, null exactly when the written field is empty and unquoted, and
\* with the written text otherwise.
C11_NullIffEmptyUnquoted ==
    fnPc = "called"
        => /\ ~fnRes.panic
           /\ fnRes.records =
                [i \in 1..Len(fnArg) |->
                    [j \in 1..Len(fnArg[i]) |-> csvExpected(fnArg[i][j])]]

(***************************************************************************)
(* Standard CSV quoting read back by both definitions of getRecordsForDL.  *)
(* Every field is written enclosed in double quotes with the double quotes *)
(* of its text doubled.                                                    *)
(***************************************************************************)
\* largest number of characters of a quoted field's text
MaxChars == 2
\* largest number of quoted fields of a line
MaxQuoted == 2

\* the texts of a field: characters "a", comma "c" and double quote "q"
FieldTexts == UNION {[1..n -> {"a", "c", "q"}] : n \in 0..MaxChars}

\* the records written with standard quoting
QuotedRecords == UNION {[1..n -> FieldTexts] : n \in 1..MaxQuoted}

\* the text of a field with every double quote doubled
RECURSIVE doubleQuotes(_)
doubleQuotes(t) ==
    IF t = <<>> THEN <<>>
    ELSE (IF Head(t) = "q" THEN <<"q", "q">> ELSE <<Head(t)>>)
            \o doubleQuotes(Tail(t))

\* the characters of a record: quoted fields joined by commas
quotedLine(rec) ==
    csvLine([i \in 1..Len(rec) |->
                [quoted |-> TRUE, val |-> doubleQuotes(rec[i])]])

\* rows_dl.go:215-258: the loop over the runes of one line in the first
\* definition, from the state (b, useDoubleQuote, delimiter, field, record)
\* on; delimiter is never reset, so it carries over from one rune to the
\* next. The result is the record, or a panic.
RECURSIVE scanLineFirst(_, _, _, _, _)
scanLineFirst(b, useDoubleQuote, delimiter, field, record) ==
    LET r == IF b = <<>> THEN "E" ELSE Head(b)
        width == IF b = <<>> THEN 0 ELSE 1
        udq == IF Len(field) = 0 THEN r = "q" ELSE useDoubleQuote
        closing == r = "c" /\ udq /\ endsWithQuote(field)
        dl == IF r = "c" THEN (~udq \/ closing) ELSE delimiter
        panic1 == closing /\ Len(field) = 1
        f1 == IF closing THEN stripQuotes(field) ELSE field
        rec1 == IF dl
                THEN Append(record, [isNil |-> fieldIsNil(udq, f1), val |-> f1])
                ELSE record
        f2 == IF dl THEN <<>> ELSE f1 \o <<r>>
        last == width >= Len(b)
        strip == udq /\ endsWithQuote(f2)
        panic2 == last /\ strip /\ Len(f2) = 1
        f3 == IF strip THEN stripQuotes(f2) ELSE f2
    IN IF panic1 \/ panic2 THEN [panic |-> TRUE, record |-> <<>>]
       ELSE IF last
       THEN [panic |-> FALSE,
             record |-> Append(rec1, [isNil |-> fieldIsNil(udq, f3),
                                      val |-> f3])]
       ELSE scanLineFirst(Tail(b), udq, dl, f2, rec1)

\* rows_dl.go:200-264: the first definition reads one line
getRecordsForDLFirst(line) == scanLineFirst(line, FALSE, FALSE, <<>>, <<>>)

\* the quoted line of fnArg is read by the first definition
getRecordsForDLFirstCall ==
    /\ fnPc = "idle"
    /\ fnPc' = "first"
    /\ fnRes' = getRecordsForDLFirst(quotedLine(fnArg))
    /\ UNCHANGED fnArg
    /\ UNCHANGED <<ctxVars, waitVars, callVars, rowsVars, timeVars,
                   driverVars, openVars>>

\* the quoted line of fnArg is read by the second definition
getRecordsForDLSecondCall ==
    /\ fnPc = "idle"
    /\ fnPc' = "second"
    /\ fnRes' = scanLine(quotedLine(fnArg), FALSE, <<>>, <<>>)
    /\ UNCHANGED fnArg
    /\ UNCHANGED <<ctxVars, waitVars, callVars, rowsVars, timeVars,
                   driverVars, openVars>>

InitQuote ==
    /\ ctxDone = FALSE
    /\ ctxTimeout = [ok |-> FALSE, val |-> 0]
    /\ ctxMode = [ok |-> FALSE, val |-> 0]
    /\ InitWaitVars
    /\ InitCallVars
    /\ InitRowsVars
    /\ fnPc = "idle"
    /\ fnArg \in QuotedRecords
    /\ fnRes = <<>>
    /\ InitTimeVars
    /\ InitOpenVars
    /\ InitDriverVars

NextQuote ==
    \/ getRecordsForDLFirstCall
    \/ getRecordsForDLSecondCall

SpecQuote == InitQuote /\ [][NextQuote]_vars

\* C31: either definition of the reader returns, for the standard CSV
\* encoding of a record of quoted fields, exactly the original fields: one
\* non-null field per written field, holding the written text with commas
\* kept and every doubled quote read back as one quote.
C31_QuotingRoundTrip ==
    fnPc \in {"first", "second"}
        => /\ ~fnRes.panic
           /\ fnRes.record =
                [j \in 1..Len(fnArg) |-> [isNil |-> FALSE, val |-> fnArg[j]]]

(***************************************************************************)
(* Value coercion (convertValueByColumnType and the three row converters). *)
(***************************************************************************)
\* largest number of columns of a converted row
MaxCols == 2

\* the marker the TEXTFILE data files of a derived table carry for NULL
nullStringResultModeGzipDL == "\\N"

\* the declared column types convertValueByColumnType tells apart; "varchar"
\* stands for every type of the default branch
ColumnTypes ==
    {"tinyint", "smallint", "integer", "int", "bigint", "double", "float",
     "boolean", "timestamp", "timestamp with time zone", "date", "varchar"}

\* the texts of the cells that are not null
CellTexts ==
    {"1", "true", "abc", "", "2020-01-02", "2020-01-02 03:04:05.000",
     "2020-01-02 03:04:05.000 UTC"}

\* a result cell as the query produced it: NULL, or a text
Cells == {[null |-> TRUE, text |-> ""]}
             \cup {[null |-> FALSE, text |-> t] : t \in CellTexts}

\* the value database/sql receives for NULL
NilValue == [kind |-> "nil", text |-> ""]

\* the typed value of a converted text
value(kind, t) == [kind |-> kind, text |-> t]

\* the texts of integer cells at the edges of the 32 and the 64 bit range
IntTexts ==
    {"2147483647", "2147483648", "-2147483648", "-2147483649",
     "9223372036854775807", "9223372036854775808",
     "-9223372036854775808", "-9223372036854775809", "+1", "-"}

\* the characters of a cell text
chars(t) ==
    CASE t = "1" -> <<"1">>
      [] t = "+1" -> <<"+", "1">>
      [] t = "-" -> <<"-">>
      [] t = "" -> <<>>
      [] t = "true" -> <<"t", "r", "u", "e">>
      [] t = "abc" -> <<"a", "b", "c">>
      [] t = "2147483647" -> <<"2", "1", "4", "7", "4", "8", "3", "6", "4", "7">>
      [] t = "2147483648" -> <<"2", "1", "4", "7", "4", "8", "3", "6", "4", "8">>
      [] t = "-2147483648" ->
            <<"-", "2", "1", "4", "7", "4", "8", "3", "6", "4", "8">>
      [] t = "-2147483649" ->
            <<"-", "2", "1", "4", "7", "4", "8", "3", "6", "4", "9">>
      [] t = "9223372036854775807" ->
            <<"9", "2", "2", "3", "3", "7", "2", "0", "3", "6", "8", "5",
              "4", "7", "7", "5", "8", "0", "7">>
      [] t = "9223372036854775808" ->
            <<"9", "2", "2", "3", "3", "7", "2", "0", "3", "6", "8", "5",
              "4", "7", "7", "5", "8", "0", "8">>
      [] t = "-9223372036854775808" ->
            <<"-", "9", "2", "2", "3", "3", "7", "2", "0", "3", "6", "8",
              "5", "4", "7", "7", "5", "8", "0", "8">>
      [] t = "-9223372036854775809" ->
            <<"-", "9", "2", "2", "3", "3", "7", "2", "0", "3", "6", "8",
              "5", "4", "7", "7", "5", "8", "0", "9">>
      [] OTHER -> <<"x">>

\* the value of a decimal digit, -1 for any other character
digit(c) ==
    CASE c = "0" -> 0 [] c = "1" -> 1 [] c = "2" -> 2 [] c = "3" -> 3
      [] c = "4" -> 4 [] c = "5" -> 5 [] c = "6" -> 6 [] c = "7" -> 7
      [] c = "8" -> 8 [] c = "9" -> 9 [] OTHER -> -1

\* the decimal digits of 2^(bitSize - 1), the magnitude of the least value
\* of a signed integer of that width
cutoff(bitSize) ==
    IF bitSize = 32 THEN <<2, 1, 4, 7, 4, 8, 3, 6, 4, 8>>
    ELSE <<9, 2, 2, 3, 3, 7, 2, 0, 3, 6, 8, 5, 4, 7, 7, 5, 8, 0, 8>>

\* a sequence of digits without its leading zeros
RECURSIVE stripZeros(_)
stripZeros(d) ==
    IF d # <<>> /\ Head(d) = 0 THEN stripZeros(Tail(d)) ELSE d

\* digit sequences of one length: a < b
RECURSIVE lexLess(_, _)
lexLess(a, b) ==
    IF a = <<>> THEN FALSE
    ELSE IF Head(a) # Head(b) THEN Head(a) < Head(b)
    ELSE lexLess(Tail(a), Tail(b))

\* the number of the digits a is less than the number of the digits b
magLess(a, b) ==
    LET x == stripZeros(a)
        y == stripZeros(b)
    IN IF Len(x) # Len(y) THEN Len(x) < Len(y) ELSE lexLess(x, y)

\* ParseInt accepts every magnitude, whatever the width
inRangeAlways(neg, digits, bitSize) == TRUE

\* strconv.ParseInt: a magnitude fits the width when it is below
\* 2^(bitSize-1), or equal to it for a negative number
inRange(neg, digits, bitSize) ==
    \/ magLess(digits, cutoff(bitSize))
    \/ neg /\ stripZeros(digits) = cutoff(bitSize)

\* strconv.ParseInt(s, 10, bitSize) succeeds: an optional sign, at least
\* one digit, nothing but digits, and a value that fits the width
parsesInt(t, bitSize) ==
    LET c == chars(t)
        signed == c # <<>> /\ Head(c) \in {"+", "-"}
        body == IF signed THEN Tail(c) ELSE c
        digits == [i \in 1..Len(body) |-> digit(body[i])]
    IN /\ body # <<>>
       /\ \A i \in 1..Len(body) : digits[i] >= 0
       /\ inRange(signed /\ Head(c) = "-", digits, bitSize)

\* strconv.ParseFloat(s, 64) succeeds
parsesFloat(t) == t = "1"

\* strconv.ParseBool(s) succeeds: it accepts 1, t, true, 0, f, false, ...
parsesBool(t) == t \in {"1", "true"}

\* time.Parse(layout, s) succeeds for the layout of the column type
parsesTime(colType, t) ==
    \/ colType = "timestamp" /\ t = "2020-01-02 03:04:05.000"
    \/ colType = "timestamp with time zone"
          /\ t = "2020-01-02 03:04:05.000 UTC"
    \/ colType = "date" /\ t = "2020-01-02"

\* unnamed/part_000:91-138: the value of the text t for a column type, or
\* the parse error
convertValueByColumnType(t, colType) ==
    IF colType \in {"tinyint", "smallint", "integer", "int"}
    THEN IF parsesInt(t, 32) THEN [err |-> "nil", v |-> value("int32", t)]
         ELSE [err |-> "parse", v |-> NilValue]
    ELSE IF colType = "bigint"
    THEN IF parsesInt(t, 64) THEN [err |-> "nil", v |-> value("int64", t)]
         ELSE [err |-> "parse", v |-> NilValue]
    ELSE IF colType \in {"double", "float"}
    THEN IF parsesFloat(t) THEN [err |-> "nil", v |-> value("float64", t)]
         ELSE [err |-> "parse", v |-> NilValue]
    ELSE IF colType = "boolean"
    THEN IF parsesBool(t) THEN [err |-> "nil", v |-> value("bool", t)]
         ELSE [err |-> "parse", v |-> NilValue]
    ELSE IF colType \in {"timestamp", "timestamp with time zone", "date"}
    THEN IF parsesTime(colType, t) THEN [err |-> "nil", v |-> value("time", t)]
         ELSE [err |-> "parse", v |-> NilValue]
    ELSE [err |-> "nil", v |-> value("string", t)]

\* types.Datum of a cell in API mode: VarCharValue is nil for NULL
datumOf(c) == [isNil |-> c.null, val |-> c.text]

\* downloadField of a cell in Bulk-Download mode: NULL is written as an
\* empty unquoted field, which the reader marks isNil
downloadFieldOf(c) == [isNil |-> c.null, val |-> c.text]

\* the raw string of a cell in Derived-Table mode: NULL is the marker
rawOf(c) == IF c.null THEN nullStringResultModeGzipDL ELSE c.text

\* the loop of a row converter over the cells 1..n of a row, given for each
\* cell whether it is skipped as null and its text: the error with the
\* index of the failing cell, and dest
RECURSIVE convertCells(_, _, _, _)
convertCells(isNil, text, types, n) ==
    IF n = 0 THEN [err |-> "nil", index |-> 0, dest |-> <<>>]
    ELSE LET before == convertCells(isNil, text, types, n - 1)
             c == convertValueByColumnType(text[n], types[n])
         IN IF before.err # "nil" THEN before
            ELSE IF isNil[n]
            THEN [before EXCEPT !.dest = Append(before.dest, NilValue)]
            ELSE IF c.err # "nil"
            THEN [before EXCEPT !.err = c.err, !.index = n]
            ELSE [before EXCEPT !.dest = Append(before.dest, c.v)]

\* unnamed/part_000:21-44: convertRow, API mode
convertRow(types, data) ==
    convertCells([i \in 1..Len(data) |-> data[i].isNil],
                 [i \in 1..Len(data) |-> data[i].val], types, Len(data))

\* unnamed/part_000:46-69: convertRowFromCsv, Bulk-Download mode
convertRowFromCsv(types, fields) ==
    convertCells([i \in 1..Len(fields) |-> fields[i].isNil],
                 [i \in 1..Len(fields) |-> fields[i].val], types, Len(fields))

\* unnamed/part_000:71-89: convertRowFromTableInfo, Derived-Table mode: no
\* cell is skipped
convertRowFromTableInfo(types, raw) ==
    convertCells([i \in 1..Len(raw) |-> FALSE], raw, types, Len(raw))

\* the row of fnArg is converted by the converter of its result mode
convertCall ==
    /\ fnPc = "idle"
    /\ fnPc' = "called"
    /\ LET row == fnArg.row
           types == fnArg.types
       IN fnRes' =
            IF fnArg.mode = ResultModeDL
            THEN convertRowFromCsv(types,
                     [i \in 1..Len(row) |-> downloadFieldOf(row[i])])
            ELSE IF fnArg.mode = ResultModeGzipDL
            THEN convertRowFromTableInfo(types,
                     [i \in 1..Len(row) |-> rawOf(row[i])])
            ELSE convertRow(types, [i \in 1..Len(row) |-> datumOf(row[i])])
    /\ UNCHANGED fnArg
    /\ UNCHANGED <<ctxVars, waitVars, callVars, rowsVars, timeVars,
                   driverVars, openVars>>

InitConvert ==
    /\ ctxDone = FALSE
    /\ ctxTimeout = [ok |-> FALSE, val |-> 0]
    /\ ctxMode = [ok |-> FALSE, val |-> 0]
    /\ InitWaitVars
    /\ InitCallVars
    /\ InitRowsVars
    /\ fnPc = "idle"
    /\ \E n \in 1..MaxCols :
        fnArg \in [mode : ResultModes, types : [1..n -> ColumnTypes],
                   row : [1..n -> Cells]]
    /\ fnRes = <<>>
    /\ InitTimeVars
    /\ InitOpenVars
    /\ InitDriverVars

NextConvert == convertCall

SpecConvert == InitConvert /\ [][NextConvert]_vars

\* C12: in every result mode and for every column type, a NULL cell is not
\* the cell a conversion error is reported for, and a converted row holds
\* the nil value at the place of every NULL cell.
C12_NullNeverFails ==
    fnPc = "called"
        => \A i \in 1..Len(fnArg.row) :
              fnArg.row[i].null
                 => /\ fnRes.index # i
                    /\ fnRes.err = "nil" => fnRes.dest[i] = NilValue

(***************************************************************************)
(* SpecCoerce: convertValueByColumnType applied to one text of one column  *)
(* type.                                                                   *)
(***************************************************************************)
convertValueCall ==
    /\ fnPc = "idle"
    /\ fnPc' = "called"
    /\ fnRes' = convertValueByColumnType(fnArg.text, fnArg.type)
    /\ UNCHANGED fnArg
    /\ UNCHANGED <<ctxVars, waitVars, callVars, rowsVars, timeVars,
                   driverVars, openVars>>

InitCoerce ==
    /\ ctxDone = FALSE
    /\ ctxTimeout = [ok |-> FALSE, val |-> 0]
    /\ ctxMode = [ok |-> FALSE, val |-> 0]
    /\ InitWaitVars
    /\ InitCallVars
    /\ InitRowsVars
    /\ fnPc = "idle"
    /\ fnArg \in [type : ColumnTypes, text : CellTexts \cup IntTexts]
    /\ fnRes = <<>>
    /\ InitTimeVars
    /\ InitOpenVars
    /\ InitDriverVars

NextCoerce == convertValueCall

SpecCoerce == InitCoerce /\ [][NextCoerce]_vars

\* the texts that are base-10 integers of 32 bits, and of 64 bits
Int32Texts == {"1", "+1", "2147483647", "-2147483648"}
Int64Texts ==
    Int32Texts \cup {"2147483648", "-2147483649", "9223372036854775807",
                     "-9223372036854775808"}

\* C21: a cell of a tinyint, smallint, integer or int column is converted
\* to a 32-bit integer of the number it spells when that number fits 32
\* bits, a cell of a bigint column to a 64-bit integer when it fits 64
\* bits, and every other text of such a column is a conversion error:
\* no value at all is returned for it, and never a string.
C21_IntegerWidth ==
    fnPc = "called"
        => /\ fnArg.type \in {"tinyint", "smallint", "integer", "int"}
                => fnRes = IF fnArg.text \in Int32Texts
                           THEN [err |-> "nil",
                                 v |-> value("int32", fnArg.text)]
                           ELSE [err |-> "parse", v |-> NilValue]
           /\ fnArg.type = "bigint"
                => fnRes = IF fnArg.text \in Int64Texts
                           THEN [err |-> "nil",
                                 v |-> value("int64", fnArg.text)]
                           ELSE [err |-> "parse", v |-> NilValue]

\* the number one above the 32-bit range was refused for an int column
C21_Witness ==
    /\ fnPc = "called"
    /\ fnArg.type = "int"
    /\ fnArg.text = "2147483648"
    /\ fnRes.err = "parse"

(***************************************************************************)
(* SpecOpen: concurrent calls of athena.Open (driver.go:125-148).          *)
(***************************************************************************)
\* driver.go:126-133: a Config without database or region is refused
openValidate(p) ==
    /\ oPc[p] = "start"
    /\ oPc' = [oPc EXCEPT ![p] = IF oValid[p] THEN "lock" ELSE "refused"]
    /\ UNCHANGED <<oValid, oTmp, oName, mutex, openFromSessionCount,
                   registered>>

\* a mutex every caller can take at any time
mutexFreeAlways(m) == TRUE

\* sync.Mutex: Lock returns only while nobody holds the mutex
mutexFree(m) == m = 0

\* driver.go:141: openFromSessionMutex.Lock()
openLock(p) ==
    /\ oPc[p] = "lock"
    /\ mutexFree(mutex)
    /\ mutex' = p
    /\ oPc' = [oPc EXCEPT ![p] = "load"]
    /\ UNCHANGED <<oValid, oTmp, oName, openFromSessionCount, registered>>

\* driver.go:142: openFromSessionCount++, the load
openLoad(p) ==
    /\ oPc[p] = "load"
    /\ oTmp' = [oTmp EXCEPT ![p] = openFromSessionCount]
    /\ oPc' = [oPc EXCEPT ![p] = "store"]
    /\ UNCHANGED <<oValid, oName, mutex, openFromSessionCount, registered>>

\* driver.go:142: openFromSessionCount++, the store
openStore(p) ==
    /\ oPc[p] = "store"
    /\ openFromSessionCount' = oTmp[p] + 1
    /\ oPc' = [oPc EXCEPT ![p] = "name"]
    /\ UNCHANGED <<oValid, oTmp, oName, mutex, registered>>

\* driver.go:143: name := fmt.Sprintf("athena-%d", openFromSessionCount)
openName(p) ==
    /\ oPc[p] = "name"
    /\ oName' = [oName EXCEPT ![p] = openFromSessionCount]
    /\ oPc' = [oPc EXCEPT ![p] = "unlock"]
    /\ UNCHANGED <<oValid, oTmp, mutex, openFromSessionCount, registered>>

\* driver.go:144: openFromSessionMutex.Unlock()
openUnlock(p) ==
    /\ oPc[p] = "unlock"
    /\ mutex' = 0
    /\ oPc' = [oPc EXCEPT ![p] = "register"]
    /\ UNCHANGED <<oValid, oTmp, oName, openFromSessionCount, registered>>

\* driver.go:146-147: sql.Register(name, ...) panics when the name is
\* taken; otherwise Open returns the handle of sql.Open
openRegister(p) ==
    /\ oPc[p] = "register"
    /\ IF oName[p] \in registered
       THEN /\ oPc' = [oPc EXCEPT ![p] = "panic"]
            /\ UNCHANGED registered
       ELSE /\ oPc' = [oPc EXCEPT ![p] = "done"]
            /\ registered' = registered \cup {oName[p]}
    /\ UNCHANGED <<oValid, oTmp, oName, mutex, openFromSessionCount>>

InitOpen ==
    /\ ctxDone = FALSE
    /\ ctxTimeout = [ok |-> FALSE, val |-> 0]
    /\ ctxMode = [ok |-> FALSE, val |-> 0]
    /\ InitWaitVars
    /\ InitCallVars
    /\ InitRowsVars
    /\ InitFnVars
    /\ clock = 0
    /\ jStart = 0
    /\ InitDriverVars
    /\ oPc = [p \in Openers |-> "start"]
    /\ oValid \in [Openers -> BOOLEAN]
    /\ oTmp = [p \in Openers |-> 0]
    /\ oName = [p \in Openers |-> 0]
    /\ mutex = 0
    /\ openFromSessionCount = 0
    /\ registered = {}

NextOpen ==
    \E p \in Openers :
        /\ \/ openValidate(p)
           \/ openLock(p)
           \/ openLoad(p)
           \/ openStore(p)
           \/ openName(p)
           \/ openUnlock(p)
           \/ openRegister(p)
        /\ UNCHANGED <<ctxVars, waitVars, callVars, rowsVars, fnVars,
                       timeVars, driverVars>>

SpecOpen == InitOpen /\ [][NextOpen]_vars

\* C22: under every interleaving of the calls of Open, no two calls hold
\* the same value of the counter in their name, no registration finds its
\* name taken, and once every call has returned the counter equals the
\* number of calls that passed the validation.
C22_DistinctRegistrations ==
    /\ \A p, q \in Openers :
          p # q /\ oName[p] # 0 /\ oName[q] # 0 => oName[p] # oName[q]
    /\ \A p \in Openers : oPc[p] # "panic"
    /\ (\A p \in Openers : oPc[p] \in {"done", "refused"})
          => openFromSessionCount
                = Cardinality({p \in Openers : oValid[p]})

\* all callers passed the validation and have registered their drivers
C22_Witness ==
    /\ \A p \in Openers : oPc[p] = "done"
    /\ openFromSessionCount = MaxOpens

(***************************************************************************)
(* SpecDownload: the rows of a download cursor, from the objects of the    *)
(* output location to the calls of Next (rows_dl.go:338-390,               *)
(* rows_gzip.go:90-174).                                                   *)
(***************************************************************************)
\* a line of an object: whether it is longer than the buffer of a
\* bufio.Scanner (bufio.MaxScanTokenSize)
LineKinds == [long : BOOLEAN]

\* the objects a cursor downloads: one CSV object with its header line in
\* Bulk-Download mode, the data files of the manifest in Derived-Table mode
ObjectLines == UNION {[1..n -> LineKinds] : n \in 0..(MaxRows + 1)}

DownloadInputs ==
    {[mode |-> ResultModeDL, files |-> <<f>>] :
        f \in {l \in ObjectLines : Len(l) >= 1}}
    \cup UNION {{[mode |-> ResultModeGzipDL, files |-> fs] :
                    fs \in [1..n -> ObjectLines]} : n \in 0..MaxFiles}

\* the loop "for scanner.Scan() { if err := scanner.Err(); ... }" of
\* getRecordsForDL (rows_dl.go:423-479) and getRecordsFromGzip
\* (rows_gzip.go:232-259) over the lines k.. of the object f: Scan returns
\* false at the end of the object and also at a line longer than its
\* buffer; scanner.Err() is read only inside the loop, where it is nil, so
\* the records read so far are returned without an error
RECURSIVE scanRecords(_, _, _)
scanRecords(lines, f, k) ==
    IF k > Len(lines) \/ lines[k].long THEN <<>>
    ELSE <<(<<f, k>>)>> \o scanRecords(lines, f, k + 1)

\* rows_gzip.go:115-140: the records of the files 1..n are appended in the
\* order of the manifest; downloadedRows is made when the first file has
\* been decoded
RECURSIVE gzipRows(_, _)
gzipRows(files, n) ==
    IF n = 0 THEN NoRows
    ELSE [nil |-> FALSE,
          data |-> gzipRows(files, n - 1).data
                      \o scanRecords(files[n], n, 1)]

\* rows_dl.go:358-364: the records of the CSV object without the first
\* one; fields[1:] panics when there is no record
csvRows(file) ==
    LET fields == scanRecords(file, 1, 1)
    IN IF fields = <<>> THEN [panic |-> TRUE, rows |-> NoRows]
       ELSE [panic |-> FALSE,
             rows |-> [nil |-> FALSE, data |-> Tail(fields)]]

\* the download of the cursor's rows, all downloads succeeding
downloadRows ==
    /\ fnPc = "idle"
    /\ LET got == IF fnArg.mode = ResultModeDL
                  THEN csvRows(fnArg.files[1])
                  ELSE [panic |-> FALSE,
                        rows |-> gzipRows(fnArg.files, Len(fnArg.files))]
       IN /\ fnRes' = [rows |-> got.rows, cursor |-> 0, out |-> <<>>,
                       last |-> "none"]
          /\ fnPc' = IF got.panic THEN "panic" ELSE "built"
    /\ UNCHANGED fnArg
    /\ UNCHANGED <<ctxVars, waitVars, callVars, rowsVars, timeVars,
                   driverVars, openVars>>

\* rows_dl.go:378-390 nextDownload and rows_gzip.go:162-174 nextCTAS, the
\* conversion of the row succeeding: io.EOF at the end of the rows,
\* otherwise the row under the cursor; a nil downloadedRows panics
downloadNext ==
    /\ fnPc = "built"
    /\ fnRes.last # "EOF"
    /\ IF fnRes.rows.nil
       THEN fnPc' = "panic" /\ UNCHANGED fnRes
       ELSE /\ UNCHANGED fnPc
            /\ IF fnRes.cursor >= Len(fnRes.rows.data)
               THEN fnRes' = [fnRes EXCEPT !.last = "EOF"]
               ELSE fnRes' = [fnRes EXCEPT
                                !.out = Append(@, fnRes.rows.data[fnRes.cursor + 1]),
                                !.cursor = @ + 1,
                                !.last = "row"]
    /\ UNCHANGED fnArg
    /\ UNCHANGED <<ctxVars, waitVars, callVars, rowsVars, timeVars,
                   driverVars, openVars>>

InitDownload ==
    /\ ctxDone = FALSE
    /\ ctxTimeout = [ok |-> FALSE, val |-> 0]
    /\ ctxMode = [ok |-> FALSE, val |-> 0]
    /\ InitWaitVars
    /\ InitCallVars
    /\ InitRowsVars
    /\ fnPc = "idle"
    /\ fnArg \in DownloadInputs
    /\ fnRes = <<>>
    /\ InitTimeVars
    /\ InitOpenVars
    /\ InitDriverVars

NextDownload == downloadRows \/ downloadNext

SpecDownload == InitDownload /\ [][NextDownload]_vars

\* the lines k.. of the object f, in the order of the object
RECURSIVE linesFrom(_, _, _)
linesFrom(lines, f, k) ==
    IF k > Len(lines) THEN <<>>
    ELSE <<(<<f, k>>)>> \o linesFrom(lines, f, k + 1)

\* the rows of the source in its order: the lines of the CSV object after
\* the header, or the lines of the files in the order of the manifest
RECURSIVE sourceRows(_, _)
sourceRows(a, n) ==
    IF a.mode = ResultModeDL THEN linesFrom(a.files[1], 1, 2)
    ELSE IF n = 0 THEN <<>>
    ELSE sourceRows(a, n - 1) \o linesFrom(a.files[n], n, 1)

CsvObjects == UNION {[1..n -> LineKinds] : n \in 0..(MaxRows + 2)}

\* rows_dl.go:126-168, the first definition of downloadCsvAsync, the
\* download succeeding: r.records = records, every parsed record
downloadCsvAsyncFirst ==
    /\ fnPc = "idle"
    /\ fnPc' = "builtFirst"
    /\ fnRes' = [rows |-> [nil |-> FALSE, data |-> scanRecords(fnArg, 1, 1)],
                 cursor |-> 0, out |-> <<>>, last |-> "none"]
    /\ UNCHANGED fnArg
    /\ UNCHANGED <<ctxVars, waitVars, callVars, rowsVars, timeVars,
                   driverVars, openVars>>

\* rows_dl.go:92-118, the first definition of Next, the conversion of the
\* row succeeding: io.EOF when recordPtr has reached len(r.records),
\* otherwise the record under recordPtr
rowsDLNextFirst ==
    /\ fnPc = "builtFirst"
    /\ fnRes.last # "EOF"
    /\ IF fnRes.cursor >= Len(fnRes.rows.data)
       THEN fnRes' = [fnRes EXCEPT !.last = "EOF"]
       ELSE fnRes' = [fnRes EXCEPT
                        !.out = Append(@, fnRes.rows.data[fnRes.cursor + 1]),
                        !.cursor = @ + 1,
                        !.last = "row"]
    /\ UNCHANGED <<fnPc, fnArg>>
    /\ UNCHANGED <<ctxVars, waitVars, callVars, rowsVars, timeVars,
                   driverVars, openVars>>

\* rows_dl.go:338-367, the second definition of downloadCsv, the download
\* succeeding
downloadCsvSecond ==
    /\ fnPc = "idle"
    /\ LET got == csvRows(fnArg)
       IN /\ fnRes' = [rows |-> got.rows, cursor |-> 0, out |-> <<>>,
                       last |-> "none"]
          /\ fnPc' = IF got.panic THEN "panic" ELSE "built"
    /\ UNCHANGED fnArg
    /\ UNCHANGED <<ctxVars, waitVars, callVars, rowsVars, timeVars,
                   driverVars, openVars>>

InitHeader ==
    /\ ctxDone = FALSE
    /\ ctxTimeout = [ok |-> FALSE, val |-> 0]
    /\ ctxMode = [ok |-> FALSE, val |-> 0]
    /\ InitWaitVars
    /\ InitCallVars
    /\ InitRowsVars
    /\ fnPc = "idle"
    /\ fnArg \in CsvObjects
    /\ fnRes = <<>>
    /\ InitTimeVars
    /\ InitOpenVars
    /\ InitDriverVars

NextHeader ==
    \/ downloadCsvAsyncFirst
    \/ rowsDLNextFirst
    \/ downloadCsvSecond
    \/ downloadNext

SpecHeader == InitHeader /\ [][NextHeader]_vars

\* the parsed rows of the object after the first one
afterHeader(file) ==
    LET parsed == scanRecords(file, 1, 1)
    IN IF parsed = <<>> THEN <<>> ELSE Tail(parsed)

\* C32: the Bulk-Download cursor is built for every CSV object, the rows it
\* has yielded are the first of the parsed rows after the first parsed row,
\* and at the end of the rows it has yielded all of them: never the first
\* parsed row, and no row when the object has no or one parsed row.
C32_HeaderNeverYielded ==
    /\ fnPc # "panic"
    /\ fnPc \in {"built", "builtFirst"}
        => /\ isPrefix(fnRes.out, afterHeader(fnArg))
           /\ fnRes.last = "EOF" => fnRes.out = afterHeader(fnArg)

(***************************************************************************)
(* SpecContext: the per-call settings of a context (bin/run-container:     *)
(* 137-188 and 263-278). A context is the chain of the key/value pairs     *)
(* context.WithValue added to context.Background(), oldest first.          *)
(***************************************************************************)
\* largest number of settings made on one context
MaxSets == 3

resultModeKey == "go-athenaresult_mode_key"
timeoutKey == "go-athenatimeout_key"
\* a catalog key that is the key of the timeout
catalogKeyShared == "go-athenatimeout_key"
catalogKey == "go-athenacatalog_key"
ForceNumericStringContextKey == "go-athenaforce_numeric_string_key"

Catalogs == {"", "test_catalog"}

\* context.WithValue(ctx, key, v): v with its dynamic type
WithValue(c, key, type, v) == Append(c, [key |-> key, type |-> type, v |-> v])

SetResultMode(c, mode) == WithValue(c, resultModeKey, "ResultMode", mode)
SetTimeout(c, timeout) == WithValue(c, timeoutKey, "uint", timeout)
SetCatalog(c, catalog) == WithValue(c, catalogKey, "string", catalog)
SetForceNumericString(c) ==
    WithValue(c, ForceNumericStringContextKey, "bool", TRUE)

NilPair == [key |-> "", type |-> "nil", v |-> 0]

\* ctx.Value(key): the pair added last under the key, searched from the
\* newest pair back to context.Background()
RECURSIVE Value(_, _)
Value(c, key) ==
    IF c = <<>> THEN NilPair
    ELSE IF c[Len(c)].key = key THEN c[Len(c)]
    ELSE Value(SubSeq(c, 1, Len(c) - 1), key)

\* contextValue[T]: the zero value and false when the key has no value or
\* its value is not a T
contextValue(c, key, type, zero) ==
    LET v == Value(c, key)
    IN IF v.type = type THEN [ok |-> TRUE, val |-> v.v]
       ELSE [ok |-> FALSE, val |-> zero]

getResultModeOf(c) == contextValue(c, resultModeKey, "ResultMode", ResultModeAPI)
getTimeoutOf(c) == contextValue(c, timeoutKey, "uint", 0)
getCatalog(c) == contextValue(c, catalogKey, "string", "")

\* val, ok := ctx.Value(ForceNumericStringContextKey).(bool); val && ok
getForNumericString(c) ==
    LET v == Value(c, ForceNumericStringContextKey)
    IN v.type = "bool" /\ v.v

\* what the four getters return for a context
getters(c) ==
    [mode |-> getResultModeOf(c), timeout |-> getTimeoutOf(c),
     catalog |-> getCatalog(c), force |-> getForNumericString(c)]

\* one setting is set on the context fnArg; fnRes keeps which one, and
\* what the getters returned before
setOnContext(name, c) ==
    /\ Len(fnArg) < MaxSets
    /\ fnArg' = c
    /\ fnRes' = [set |-> name, before |-> getters(fnArg)]
    /\ fnPc' = "called"
    /\ UNCHANGED <<ctxVars, waitVars, callVars, rowsVars, timeVars,
                   driverVars, openVars>>

contextSetResultMode ==
    \E m \in ResultModes : setOnContext("mode", SetResultMode(fnArg, m))

contextSetTimeout ==
    \E t \in 0..MaxTimeout : setOnContext("timeout", SetTimeout(fnArg, t))

contextSetCatalog ==
    \E cat \in Catalogs : setOnContext("catalog", SetCatalog(fnArg, cat))

contextSetForceNumericString ==
    setOnContext("force", SetForceNumericString(fnArg))

InitContext ==
    /\ ctxDone = FALSE
    /\ ctxTimeout = [ok |-> FALSE, val |-> 0]
    /\ ctxMode = [ok |-> FALSE, val |-> 0]
    /\ InitWaitVars
    /\ InitCallVars
    /\ InitRowsVars
    /\ fnPc = "idle"
    /\ fnArg = <<>>
    /\ fnRes = <<>>
    /\ InitTimeVars
    /\ InitOpenVars
    /\ InitDriverVars

NextContext ==
    \/ contextSetResultMode
    \/ contextSetTimeout
    \/ contextSetCatalog
    \/ contextSetForceNumericString

SpecContext == InitContext /\ [][NextContext]_vars

\* the value set last under a key of the chain c, or not set
lastSet(c, key, zero) ==
    LET sets == SelectSeq(c, LAMBDA e : e.key = key)
    IN IF sets = <<>> THEN [ok |-> FALSE, val |-> zero]
       ELSE [ok |-> TRUE, val |-> sets[Len(sets)].v]

\* C24: each getter reports not set, with the zero value, on a context the
\* setting was never set on, and otherwise the value set last; and after a
\* setting was set the getters of the other settings return what they
\* returned before.
C24_GettersReturnLastSet ==
    /\ getResultModeOf(fnArg) = lastSet(fnArg, resultModeKey, ResultModeAPI)
    /\ getTimeoutOf(fnArg) = lastSet(fnArg, timeoutKey, 0)
    /\ getCatalog(fnArg) = lastSet(fnArg, catalogKey, "")
    /\ getForNumericString(fnArg)
          = lastSet(fnArg, ForceNumericStringContextKey, FALSE).val
    /\ fnPc = "called"
          => \A n \in {"mode", "timeout", "catalog", "force"} :
                n # fnRes.set => getters(fnArg)[n] = fnRes.before[n]

\* a timeout was set twice with different values, another setting between
C24_Witness ==
    /\ Len(fnArg) = 3
    /\ fnArg[1].key = timeoutKey
    /\ fnArg[2].key = catalogKey
    /\ fnArg[3].key = timeoutKey
    /\ fnArg[1].v # fnArg[3].v
    /\ getTimeoutOf(fnArg) = [ok |-> TRUE, val |-> fnArg[3].v]

(***************************************************************************)
(* SpecDeadline: one direct exec/query call from the submission to the     *)
(* cursor, with the seconds that pass in the poll loop and in the join.    *)
(***************************************************************************)
\* largest number of whole seconds the model lets pass inside one join
MaxJoin == 3

\* conn.go:106: runQuery calls newRows; the service holds the result of
\* the execution
newRowsEnter ==
    /\ callPc = "newRows"
    /\ rPc = "idle"
    /\ rPc' = "call"
    /\ pages' \in IF newRowsVariant(cfg.ResultMode) = "API"
                  THEN {<<1>>, <<2, 1>>} ELSE {<<>>}
    /\ s3Objs' \in IF newRowsVariant(cfg.ResultMode) = "DL"
                   THEN 1..(MaxRows + 1)
                   ELSE IF newRowsVariant(cfg.ResultMode) = "GzipDL"
                   THEN 0..MaxFiles ELSE {0}
    /\ UNCHANGED <<rKind, retRows, rowsErr, api, apiFetched, yielded,
                   firstNext, lastNext, jI, jCh, jCtxDone, tData, tDataRes,
                   tMeta, tMetaRes, rRows, rCols, svcTables>>
    /\ UNCHANGED <<ctxVars, waitVars, callVars>>

\* a second passes while init waits in its select; the timer of the
\* timeout context (rows_gzip.go:49, rows_dl.go:305) fires cfg.Timeout
\* seconds after init made it
joinTick ==
    /\ rPc = "join"
    /\ ~jCtxDone
    /\ clock - jStart < cfg.Timeout
    /\ clock - jStart < MaxJoin
    /\ clock' = clock + 1
    /\ UNCHANGED jStart
    /\ UNCHANGED <<ctxVars, waitVars, callVars, rowsVars>>

\* the timer of init's timeout context has run out
joinTimerFired == clock - jStart >= cfg.Timeout

InitDeadline ==
    /\ ctxDone = FALSE
    /\ ctxTimeout \in CtxTimeouts
    /\ ctxMode \in CtxModes
    /\ InitWaitVars
    /\ path = "direct"
    /\ query \in {<<"SELECT">>, <<"SHOW">>}
    /\ connMode \in ResultModes
    /\ connTimeout \in ConnTimeouts
    /\ callPc = "idle"
    /\ startLog = <<>>
    /\ qNext = 1
    /\ uuidUsed = {}
    /\ stmt = NoStmt
    /\ cfg = NoCfg
    /\ retErr = "none"
    /\ InitRowsVars
    /\ InitFnVars
    /\ InitTimeVars
    /\ InitOpenVars
    /\ InitDriverVars

NextDeadline ==
    \/ runQueryStart /\ UNCHANGED <<rowsVars, fnVars, timeVars, driverVars, openVars>>
    \/ /\ waitOnQueryPoll
       /\ clock' = clock + (wElapsed' - wElapsed)
       /\ UNCHANGED <<callVars, rowsVars, fnVars, jStart, driverVars, openVars>>
    \/ runQueryAfterWait /\ UNCHANGED <<rowsVars, fnVars, timeVars, driverVars, openVars>>
    \/ newRowsEnter /\ UNCHANGED <<fnVars, timeVars, driverVars, openVars>>
    \/ newRowsAPI /\ UNCHANGED <<fnVars, timeVars, driverVars, openVars>>
    \/ newRowsJoin /\ jStart' = clock /\ UNCHANGED <<fnVars, clock, driverVars, openVars>>
    \/ downloadCsv /\ UNCHANGED <<fnVars, timeVars, driverVars, openVars>>
    \/ downloadCompressedData /\ UNCHANGED <<fnVars, timeVars, driverVars, openVars>>
    \/ downloadSend /\ UNCHANGED <<fnVars, timeVars, driverVars, openVars>>
    \/ metadataFetch /\ UNCHANGED <<fnVars, timeVars, driverVars, openVars>>
    \/ metadataSend /\ UNCHANGED <<fnVars, timeVars, driverVars, openVars>>
    \/ joinTick /\ UNCHANGED <<fnVars, driverVars, openVars>>
    \/ joinDeadline /\ joinTimerFired /\ UNCHANGED <<fnVars, timeVars, driverVars, openVars>>
    \/ joinRecvDone /\ UNCHANGED <<fnVars, timeVars, driverVars, openVars>>
    \/ joinRecv /\ UNCHANGED <<fnVars, timeVars, driverVars, openVars>>

SpecDeadline == InitDeadline /\ [][NextDeadline]_vars

\* C13: when the call has returned its cursor or its error, no more than
\* the one timeout value the poll loop was given has passed since the
\* submission (one second is allowed for the whole-second comparison of
\* the poll loop).
C13_OneDeadline ==
    (rPc = "built" \/ callPc = "done")
        => clock <= waitTimeout(ctxTimeout) + 1

(***************************************************************************)
(* Claims about the exec/query call, checked under Spec.                   *)
(***************************************************************************)
\* the timeout value of a call: the context's, else the connection's
callTimeout ==
    IF getTimeout(ctxTimeout).ok THEN getTimeout(ctxTimeout).val
    ELSE connTimeout

\* C14: the timeout of every poll loop of the call, and the timeout given
\* to newRows for the join, is the context's value when it is set and the
\* connection's timeout otherwise.
C14_TimeoutPrecedence ==
    /\ wPc # "idle" => wTimeout = callTimeout
    /\ callPc = "newRows" => cfg.Timeout = callTimeout

\* the text that creates the derived table t from the SELECT q
\* (conn.go:232)
ctasWrap(t, q) == <<"CREATE", "TABLE", t, "AS">> \o q

\* C16: whenever newRows is called with the Derived-Table mode, the call
\* has submitted the CREATE TABLE ... AS wrapper of its SELECT (directly, or
\* as the text of the PREPARE it executes), and the rowsConfig names that
\* table and carries the drop callback.
C16_GzipDLHasCTASTable ==
    (callPc = "newRows" /\ newRowsVariant(cfg.ResultMode) = "GzipDL")
        => /\ cfg.CTASTable # ""
           /\ cfg.AfterDownload
           /\ \E i \in 1..Len(startLog) :
                \/ startLog[i] = ctasWrap(cfg.CTASTable, query)
                \/ startLog[i] = <<"PREPARE", stmt.prepareKey, "FROM">>
                                    \o ctasWrap(cfg.CTASTable, query)

(***************************************************************************)
(* The parameters of an executed statement (serial, makeQuery).            *)
(***************************************************************************)
\* the Go values given as parameters: strings whose text is or is not a
\* number, an int, a float64 and a bool
ArgValues ==
    {[type |-> "string", text |-> "1"], [type |-> "string", text |-> "abc"],
     [type |-> "string", text |-> ""], [type |-> "int", text |-> "1"],
     [type |-> "float64", text |-> "1"], [type |-> "bool", text |-> "true"]}

\* presto.Serial: a string becomes a quoted literal, an integer a bare one
prestoSerial(v) ==
    [quoted |-> v.type = "string", text |-> v.text]

\* stmt.go:158-167: serial; the context (and with it the force-numeric-
\* string flag) is not looked at
serial(force, v) ==
    IF v.type = "float64" THEN [quoted |-> FALSE, text |-> v.text]
    ELSE prestoSerial(v)

\* stmt.go:78-89: QueryContext makes the EXECUTE text of the arguments
stmtMakeQueryCall ==
    /\ fnPc = "idle"
    /\ fnPc' = "called"
    /\ fnRes' = makeQuery([NoStmt EXCEPT !.prepareKey = "u2"],
                    [i \in 1..Len(fnArg.args) |->
                        serial(fnArg.force, fnArg.args[i])])
    /\ UNCHANGED fnArg
    /\ UNCHANGED <<ctxVars, waitVars, callVars, rowsVars, timeVars,
                   driverVars, openVars>>

InitSerial ==
    /\ ctxDone = FALSE
    /\ ctxTimeout = [ok |-> FALSE, val |-> 0]
    /\ ctxMode = [ok |-> FALSE, val |-> 0]
    /\ InitWaitVars
    /\ InitCallVars
    /\ InitRowsVars
    /\ fnPc = "idle"
    /\ \E n \in 1..MaxArgs :
        fnArg \in [force : BOOLEAN, args : [1..n -> ArgValues]]
    /\ fnRes = <<>>
    /\ InitTimeVars
    /\ InitOpenVars
    /\ InitDriverVars

NextSerial == stmtMakeQueryCall

SpecSerial == InitSerial /\ [][NextSerial]_vars

\* C19: in the EXECUTE text, a string parameter whose text is a number is
\* a bare literal unless the context forces numeric strings, and then a
\* quoted one; a string whose text is no number is always quoted.
C19_NumericStringLiteral ==
    fnPc = "called"
        => \A i \in 1..Len(fnArg.args) :
              fnArg.args[i].type = "string"
                 => /\ fnRes[3 + i].text = fnArg.args[i].text
                    /\ fnRes[3 + i].quoted
                          = (fnArg.force \/ ~parsesFloat(fnArg.args[i].text))

\* the submissions of the statement of the call: the text itself on the
\* direct path, the EXECUTE of the prepared statement on the prepared path
submissions ==
    IF path = "direct" THEN startLog
    ELSE SelectSeq(startLog, LAMBDA e : e[1] = "EXECUTE")

\* the steps of one exec/query call are in the order submit, poll, build
callInOrder ==
    /\ (wPc = "idle" /\ wPc' = "loop")
          => /\ Len(startLog') = Len(startLog) + 1
             /\ qNext' = qNext + 1
             /\ wQueryID' = qNext
    /\ (callPc # "newRows" /\ callPc' = "newRows")
          => /\ wPc = "ret"
             /\ wErr = "nil"
             /\ wLast = "SUCCEEDED"
             /\ cfg'.QueryID = wQueryID
    /\ (callPc # "done" /\ callPc' = "done")
          => /\ cfg' = NoCfg
             /\ retErr' # "nil"
             /\ retErr' = IF wPc = "ret" THEN wErr ELSE "start"

C17_ArgsPanicBeforeSubmit ==
    (path = "direct" /\ nArgs > 0)
        => /\ callPc \in {"idle", "panic"}
           /\ startLog = <<>>
           /\ wPc = "idle"
           /\ retErr = "none"
           /\ cfg = NoCfg

\* a call with arguments has panicked
C17_Witness == path = "direct" /\ nArgs > 0 /\ callPc = "panic"

(***************************************************************************)
(* SpecStmt: the life of one prepared statement: executions and Close.     *)
(***************************************************************************)
\* largest number of executions of the statement
MaxExecs == 2
\* largest number of calls of Close
MaxCloses == 2

\* the EXECUTE texts submitted so far
executions == SelectSeq(startLog, LAMBDA e : e[1] = "EXECUTE")

\* stmt.go:155: runQuery has returned the values of newRows, or its error;
\* the statement can be executed again
stmtQueryReturn ==
    /\ path = "prepared"
    /\ callPc \in {"newRows", "done"}
    /\ callPc' = "prepared"
    /\ cfg' = NoCfg
    /\ retErr' = "none"
    /\ UNCHANGED <<path, query, connMode, connTimeout, startLog, qNext,
                   uuidUsed, stmt>>
    /\ UNCHANGED <<ctxVars, waitVars>>

\* Close as if it waited for the execution and returned its failure
closeErrorWaits(startErr, state) ==
    IF startErr = "nil" /\ state = "FAILED" THEN "failed" ELSE startErr

\* stmt.go:25-26: the error Close returns is the one of startQuery,
\* whatever becomes of the execution
closeError(startErr, state) == startErr

\* stmt.go:22-27: Close submits DEALLOCATE PREPARE and returns the error of
\* the submission; the execution, which fails when the service does not
\* hold the statement, is not waited for
stmtClose ==
    /\ callPc = "prepared"
    /\ Len(closeLog) < MaxCloses
    /\ startLog' = Append(startLog, <<"DEALLOCATE", "PREPARE", stmt.prepareKey>>)
    /\ \E ok \in BOOLEAN :
        IF ok
        THEN /\ qNext' = qNext + 1
             /\ execLog' = Append(execLog,
                              IF stmt.prepareKey \in svcPrepared
                              THEN "SUCCEEDED" ELSE "FAILED")
             /\ svcPrepared' = svcPrepared \ {stmt.prepareKey}
             /\ closeLog' = Append(closeLog,
                               closeError("nil",
                                   IF stmt.prepareKey \in svcPrepared
                                   THEN "SUCCEEDED" ELSE "FAILED"))
        ELSE /\ closeLog' = Append(closeLog, closeError("start", "NONE"))
             /\ UNCHANGED <<qNext, execLog, svcPrepared>>
    /\ UNCHANGED <<path, query, connMode, connTimeout, callPc, uuidUsed, stmt,
                   cfg, retErr, nArgs>>
    /\ UNCHANGED <<ctxVars, waitVars>>

InitStmt ==
    /\ ctxDone = FALSE
    /\ ctxTimeout = [ok |-> FALSE, val |-> 0]
    /\ ctxMode \in CtxModes
    /\ InitWaitVars
    /\ path = "prepared"
    /\ query \in Queries
    /\ connMode \in ResultModes
    /\ connTimeout = timeOutLimitDefault
    /\ callPc = "prepared"
    /\ stmt = prepareStmt(query, connMode, ctxMode, "u1", "u2")
    /\ uuidUsed = {"u2"} \cup (IF stmt.afterDownload THEN {"u1"} ELSE {})
    /\ startLog = << <<"PREPARE", "u2", "FROM">>
                        \o prepareQuery(query, connMode, ctxMode, "u1") >>
    /\ qNext = 2
    /\ cfg = NoCfg
    /\ retErr = "none"
    /\ InitRowsVars
    /\ InitFnVars
    /\ InitTimeVars
    /\ InitOpenVars
    /\ nArgs = 0
    /\ closeLog = <<>>
    /\ execLog = <<>>
    /\ svcPrepared = {"u2"}

NextStmt ==
    \/ /\ stmtRunQueryStart
       /\ closeLog = <<>>
       /\ Len(executions) < MaxExecs
       /\ UNCHANGED <<rowsVars, fnVars, timeVars, driverVars, openVars>>
    \/ waitOnQueryPoll /\ UNCHANGED <<callVars, rowsVars, fnVars, timeVars, driverVars, openVars>>
    \/ CtxCancel /\ UNCHANGED <<callVars, rowsVars, fnVars, timeVars, driverVars, openVars>>
    \/ stmtRunQueryAfterWait /\ UNCHANGED <<rowsVars, fnVars, timeVars, driverVars, openVars>>
    \/ stmtQueryReturn /\ UNCHANGED <<rowsVars, fnVars, timeVars, driverVars, openVars>>
    \/ stmtClose /\ UNCHANGED <<rowsVars, fnVars, timeVars, openVars>>

SpecStmt == InitStmt /\ [][NextStmt]_vars

\* the derived table the execution e creates: the one its prepared text
\* names
tableOf(e) == IF e[2] = stmt.prepareKey THEN stmt.ctasTable ELSE ""

\* C15: no two executions of a Derived-Table statement create a derived
\* table of the same name.
C15_UniqueCTASTable ==
    stmt.ctasTable # ""
        => \A i, j \in 1..Len(executions) :
              i # j => tableOf(executions[i]) # tableOf(executions[j])

RECURSIVE placeholders(_)
placeholders(q) ==
    IF q = <<>> THEN 0
    ELSE (IF Head(q) = "?" THEN 1 ELSE 0) + placeholders(Tail(q))

\* the number of question mark characters of a text
RECURSIVE questionMarkCount(_)
questionMarkCount(q) ==
    IF q = <<>> THEN 0
    ELSE (IF Head(q) \in {"?", "'?'"} THEN 1 ELSE 0)
            + questionMarkCount(Tail(q))

prepareReturn ==
    /\ prepareContextAfterWait
    /\ svcPrepared' = IF wErr = "nil" THEN svcPrepared \cup {stmt.prepareKey}
                      ELSE svcPrepared
    /\ UNCHANGED <<nArgs, closeLog, execLog>>

InitLife ==
    /\ ctxDone = FALSE
    /\ ctxTimeout = [ok |-> FALSE, val |-> 0]
    /\ ctxMode \in CtxModes
    /\ InitWaitVars
    /\ path = "prepared"
    /\ query \in Queries
    /\ connMode \in ResultModes
    /\ connTimeout = timeOutLimitDefault
    /\ callPc = "idle"
    /\ stmt = NoStmt
    /\ uuidUsed = {}
    /\ startLog = <<>>
    /\ qNext = 1
    /\ cfg = NoCfg
    /\ retErr = "none"
    /\ InitRowsVars
    /\ InitFnVars
    /\ InitTimeVars
    /\ InitOpenVars
    /\ InitDriverVars

NextLife ==
    \/ prepareContextStart /\ UNCHANGED <<rowsVars, fnVars, timeVars, driverVars, openVars>>
    \/ prepareReturn /\ UNCHANGED <<rowsVars, fnVars, timeVars, openVars>>
    \/ /\ stmtRunQueryStart
       /\ Len(executions) < MaxExecs
       /\ UNCHANGED <<rowsVars, fnVars, timeVars, driverVars, openVars>>
    \/ waitOnQueryPoll /\ UNCHANGED <<callVars, rowsVars, fnVars, timeVars, driverVars, openVars>>
    \/ CtxCancel /\ UNCHANGED <<callVars, rowsVars, fnVars, timeVars, driverVars, openVars>>
    \/ stmtRunQueryAfterWait /\ UNCHANGED <<rowsVars, fnVars, timeVars, driverVars, openVars>>
    \/ /\ stmtQueryReturn
       /\ stmt # NoStmt
       /\ UNCHANGED <<rowsVars, fnVars, timeVars, driverVars, openVars>>
    \/ stmtClose /\ UNCHANGED <<rowsVars, fnVars, timeVars, openVars>>

SpecLife == InitLife /\ [][NextLife]_vars

\* the submissions of the kind k, in the order they were made
submitted(k) == SelectSeq(startLog, LAMBDA e : e[1] = k)

\* the positions of the submissions of the kind k
positions(k) == {i \in 1..Len(startLog) : startLog[i][1] = k}

PrepareContextRefuse ==
    /\ path = "prepared"
    /\ callPc = "idle"
    /\ ctxDone
    /\ callPc' = "returned"
    /\ retErr' = "canceled"
    /\ UNCHANGED <<path, query, connMode, connTimeout, startLog, qNext,
                   uuidUsed, stmt, cfg>>
    /\ UNCHANGED <<ctxVars, waitVars>>

\* the caller cancels the context while no wait is in progress: before the
\* call, or between the return of the inner prepare and the select
ctxCancelOutsideWait ==
    /\ wPc = "idle"
    /\ callPc \in {"idle", "done", "prepared"}
    /\ ~ctxDone
    /\ ctxDone' = TRUE
    /\ UNCHANGED <<ctxTimeout, ctxMode, waitVars>>

\* conn.go:205-212: after the inner prepare the select looks at ctx.Done():
\* on a done context stmt.Close() is called and (nil, ctx.Err()) returned,
\* otherwise the values of the inner prepare are returned. stmt is the nil
\* interface when the inner prepare failed, and calling Close on it panics.
PrepareContextReturn ==
    /\ path = "prepared"
    /\ callPc \in {"done", "prepared"}
    /\ IF ctxDone
       THEN IF stmt = NoStmt
            THEN /\ callPc' = "panic"
                 /\ UNCHANGED <<startLog, qNext, stmt, retErr>>
            ELSE /\ callPc' = "returned"
                 /\ startLog' = Append(startLog,
                                  <<"DEALLOCATE", "PREPARE", stmt.prepareKey>>)
                 /\ \E ok \in BOOLEAN :
                        qNext' = IF ok THEN qNext + 1 ELSE qNext
                 /\ stmt' = NoStmt
                 /\ retErr' = "canceled"
       ELSE /\ callPc' = "returned"
            /\ retErr' = IF callPc = "prepared" THEN "nil" ELSE retErr
            /\ UNCHANGED <<startLog, qNext, stmt>>
    /\ UNCHANGED <<path, query, connMode, connTimeout, uuidUsed, cfg>>
    /\ UNCHANGED <<ctxVars, waitVars>>

InitPrepare ==
    /\ ctxDone = FALSE
    /\ ctxTimeout \in CtxTimeouts
    /\ ctxMode \in CtxModes
    /\ InitWaitVars
    /\ path = "prepared"
    /\ query \in Queries
    /\ connMode \in ResultModes
    /\ connTimeout = timeOutLimitDefault
    /\ callPc = "idle"
    /\ stmt = NoStmt
    /\ uuidUsed = {}
    /\ startLog = <<>>
    /\ qNext = 1
    /\ cfg = NoCfg
    /\ retErr = "none"
    /\ InitRowsVars
    /\ InitFnVars
    /\ InitTimeVars
    /\ InitOpenVars
    /\ InitDriverVars

NextPrepare ==
    \/ PrepareContextRefuse /\ UNCHANGED <<rowsVars, fnVars, timeVars, driverVars, openVars>>
    \/ /\ prepareContextStart
       /\ ~ctxDone
       /\ UNCHANGED <<rowsVars, fnVars, timeVars, driverVars, openVars>>
    \/ waitOnQueryPoll /\ UNCHANGED <<callVars, rowsVars, fnVars, timeVars, driverVars, openVars>>
    \/ CtxCancel /\ UNCHANGED <<callVars, rowsVars, fnVars, timeVars, driverVars, openVars>>
    \/ ctxCancelOutsideWait /\ UNCHANGED <<callVars, rowsVars, fnVars, timeVars, driverVars, openVars>>
    \/ prepareContextAfterWait /\ UNCHANGED <<rowsVars, fnVars, timeVars, driverVars, openVars>>
    \/ PrepareContextReturn /\ UNCHANGED <<rowsVars, fnVars, timeVars, driverVars, openVars>>

SpecPrepare == InitPrepare /\ [][NextPrepare]_vars

\* C36: PrepareContext never panics and returns either a statement with a
\* nil error or no statement with an error, whatever the inner prepare
\* did and whenever the context was cancelled.
C36_StatementOrError ==
    /\ callPc # "panic"
    /\ callPc = "returned"
        => \/ stmt # NoStmt /\ retErr = "nil"
           \/ stmt = NoStmt /\ retErr \notin {"nil", "none"}

(***************************************************************************)
(* SpecAsync: the construction of the Bulk-Download cursor in the first    *)
(* definition of rows_dl.go (lines 47-198): init joins two tasks that      *)
(* report through a deferred send.                                         *)
(***************************************************************************)
\* the position of a task after its work: on a failure it first sends the
\* error (rows_dl.go:133, 148, 155, 163, 181, 186), otherwise it returns
\* and only the deferred send is left (rows_dl.go:127-129, 171-173)
afterWork(ok) == IF ok THEN "deferred" ELSE "sendErr"

\* rows_dl.go:126-168: the download task parses the location, loads the
\* configuration, gets the object and parses it, all under init's context;
\* on success every record becomes a record of the cursor
downloadCsvAsyncWork ==
    /\ tData = "run"
    /\ \E ok \in BOOLEAN :
        /\ jCtxDone => ~ok
        /\ tDataRes' = IF ok THEN "nil" ELSE "dataErr"
        /\ rRows' = IF ok
                    THEN [nil |-> FALSE,
                          data |-> [j \in 1..s3Objs |-> <<1, j>>]]
                    ELSE rRows
        /\ tData' = afterWork(ok)
    /\ UNCHANGED <<rPc, rKind, retRows, rowsErr, apiVars, jI, jCh, jCtxDone,
                   tMeta, tMetaRes, rCols, svcTables, s3Objs>>
    /\ UNCHANGED <<ctxVars, waitVars, callVars>>

\* the download task sends its error: errChan <- fmt.Errorf(...)
downloadCsvAsyncSendErr ==
    /\ tData = "sendErr"
    /\ Len(jCh) < joinChanCap
    /\ jCh' = Append(jCh, tDataRes)
    /\ tData' = "deferred"
    /\ UNCHANGED <<rPc, rKind, retRows, rowsErr, apiVars, jI, jCtxDone,
                   tDataRes, tMeta, tMetaRes, rRows, rCols, svcTables, s3Objs>>
    /\ UNCHANGED <<ctxVars, waitVars, callVars>>

\* rows_dl.go:127-129: the deferred function of the download task sends
\* nil when the task returns, on every path
downloadCsvAsyncDeferred ==
    /\ tData = "deferred"
    /\ Len(jCh) < joinChanCap
    /\ jCh' = Append(jCh, "nil")
    /\ tData' = "done"
    /\ UNCHANGED <<rPc, rKind, retRows, rowsErr, apiVars, jI, jCtxDone,
                   tDataRes, tMeta, tMetaRes, rRows, rCols, svcTables, s3Objs>>
    /\ UNCHANGED <<ctxVars, waitVars, callVars>>

\* rows_dl.go:170-198: the metadata task calls GetQueryResults under
\* init's context and on success fills columnNames and columnTypes
getQueryResultsAsyncWork ==
    /\ tMeta = "run"
    /\ \E ok \in BOOLEAN :
        /\ jCtxDone => ~ok
        /\ tMetaRes' = IF ok THEN "nil" ELSE "metaErr"
        /\ rCols' = IF ok THEN "set" ELSE rCols
        /\ tMeta' = afterWork(ok)
    /\ UNCHANGED <<rPc, rKind, retRows, rowsErr, apiVars, jI, jCh, jCtxDone,
                   tData, tDataRes, rRows, svcTables, s3Objs>>
    /\ UNCHANGED <<ctxVars, waitVars, callVars>>

\* the metadata task sends its error (rows_dl.go:181, 186)
getQueryResultsAsyncSendErr ==
    /\ tMeta = "sendErr"
    /\ Len(jCh) < joinChanCap
    /\ jCh' = Append(jCh, tMetaRes)
    /\ tMeta' = "deferred"
    /\ UNCHANGED <<rPc, rKind, retRows, rowsErr, apiVars, jI, jCtxDone,
                   tData, tDataRes, tMetaRes, rRows, rCols, svcTables, s3Objs>>
    /\ UNCHANGED <<ctxVars, waitVars, callVars>>

\* rows_dl.go:171-173: the deferred function of the metadata task sends nil
getQueryResultsAsyncDeferred ==
    /\ tMeta = "deferred"
    /\ Len(jCh) < joinChanCap
    /\ jCh' = Append(jCh, "nil")
    /\ tMeta' = "done"
    /\ UNCHANGED <<rPc, rKind, retRows, rowsErr, apiVars, jI, jCtxDone,
                   tData, tDataRes, tMetaRes, rRows, rCols, svcTables, s3Objs>>
    /\ UNCHANGED <<ctxVars, waitVars, callVars>>

\* the state of rowsDL.init right after it started the two tasks
\* (rows_dl.go:61-70)
InitAsync ==
    /\ ctxDone = FALSE
    /\ ctxTimeout \in CtxTimeouts
    /\ ctxMode = [ok |-> TRUE, val |-> ResultModeDL]
    /\ InitWaitVars
    /\ query \in {q \in Queries : isSelectQuery(q)}
    /\ connMode \in ResultModes
    /\ connTimeout \in ConnTimeouts
    /\ callPc = "newRows"
    /\ retErr = "none"
    /\ InitRowsDirect
    /\ rPc = "join"
    /\ rKind = "DL"
    /\ retRows = "nil"
    /\ rowsErr = "none"
    /\ pages = <<>>
    /\ api = NoAPI
    /\ apiFetched = 0
    /\ yielded = <<>>
    /\ firstNext = "none"
    /\ lastNext = "none"
    /\ jI = 0
    /\ jCh = <<>>
    /\ jCtxDone = FALSE
    /\ tData = "run"
    /\ tDataRes = "none"
    /\ tMeta = "run"
    /\ tMetaRes = "none"
    /\ rRows = NoRows
    /\ rCols = "nil"
    /\ svcTables = {}
    /\ s3Objs \in 1..(MaxRows + 1)
    /\ InitFnVars
    /\ InitTimeVars
    /\ InitOpenVars
    /\ InitDriverVars

NextAsync ==
    \/ downloadCsvAsyncWork /\ UNCHANGED <<fnVars, timeVars, driverVars, openVars>>
    \/ downloadCsvAsyncSendErr /\ UNCHANGED <<fnVars, timeVars, driverVars, openVars>>
    \/ downloadCsvAsyncDeferred /\ UNCHANGED <<fnVars, timeVars, driverVars, openVars>>
    \/ getQueryResultsAsyncWork /\ UNCHANGED <<fnVars, timeVars, driverVars, openVars>>
    \/ getQueryResultsAsyncSendErr /\ UNCHANGED <<fnVars, timeVars, driverVars, openVars>>
    \/ getQueryResultsAsyncDeferred /\ UNCHANGED <<fnVars, timeVars, driverVars, openVars>>
    \/ joinDeadline /\ UNCHANGED <<fnVars, timeVars, driverVars, openVars>>
    \/ joinRecvDone /\ UNCHANGED <<fnVars, timeVars, driverVars, openVars>>
    \/ joinRecv /\ UNCHANGED <<fnVars, timeVars, driverVars, openVars>>

SpecAsync == InitAsync /\ [][NextAsync]_vars

\* the number of results a task has sent: its error, once it is past
\* "sendErr", and the nil of its deferred function, once it is done
sends(pc, res) ==
    (IF res \notin {"none", "nil"} /\ pc \in {"deferred", "done"} THEN 1 ELSE 0)
    + (IF pc = "done" THEN 1 ELSE 0)

\* a task is at a send that can no longer be taken: the channel is full
\* and the constructor, the only receiver, has returned
blockedForever(pc) ==
    /\ pc \in {"sendErr", "deferred", "send"}
    /\ Len(jCh) = joinChanCap
    /\ rPc = "built"

\* C38: each of the two tasks sends at most one result, exactly one once
\* it has ended, and no task waits at a send on the full channel after the
\* constructor returned.
C38_OneSendPerTask ==
    /\ sends(tData, tDataRes) <= 1
    /\ sends(tMeta, tMetaRes) <= 1
    /\ tData = "done" => sends(tData, tDataRes) = 1
    /\ tMeta = "done" => sends(tMeta, tMetaRes) = 1
    /\ ~blockedForever(tData)
    /\ ~blockedForever(tMeta)

(***************************************************************************)
(* SpecExec: the executions of one prepared statement, each under a        *)
(* context of its own.                                                     *)
(***************************************************************************)
\* stmt.go:65-89: ExecContext and QueryContext are called with a context
\* of the caller's choice, whose result mode need not be the one of the
\* context the statement was prepared under
stmtQueryContext ==
    /\ path = "prepared"
    /\ callPc = "prepared"
    /\ wPc = "idle"
    /\ \E m \in CtxModes :
        /\ m # ctxMode
        /\ ctxMode' = m
    /\ UNCHANGED <<ctxDone, ctxTimeout>>
    /\ UNCHANGED <<waitVars, callVars>>

NextExec ==
    \/ stmtQueryContext /\ UNCHANGED <<rowsVars, fnVars, timeVars, driverVars, openVars>>
    \/ /\ stmtRunQueryStart
       /\ Len(executions) < MaxExecs
       /\ UNCHANGED <<rowsVars, fnVars, timeVars, driverVars, openVars>>
    \/ waitOnQueryPoll /\ UNCHANGED <<callVars, rowsVars, fnVars, timeVars, driverVars, openVars>>
    \/ CtxCancel /\ UNCHANGED <<callVars, rowsVars, fnVars, timeVars, driverVars, openVars>>
    \/ stmtRunQueryAfterWait /\ UNCHANGED <<rowsVars, fnVars, timeVars, driverVars, openVars>>
    \/ stmtQueryReturn /\ UNCHANGED <<rowsVars, fnVars, timeVars, driverVars, openVars>>

SpecExec == InitStmt /\ [][NextExec]_vars

\* the rowsConfig of an execution carries the statement's values
usesPrepared ==
    callPc = "newRows"
        => /\ cfg.ResultMode = stmt.resultMode
           /\ cfg.CTASTable = stmt.ctasTable
           /\ cfg.AfterDownload = stmt.afterDownload
           /\ newRowsVariant(cfg.ResultMode) = newRowsVariant(stmt.resultMode)

\* C40: the statement's result mode, temp-table name and cleanup callback
\* never change after the prepare, and every execution hands exactly them
\* to newRows, whatever result mode the context of the execute call
\* carries.
C40_ExecutionUsesPreparedValues ==
    /\ []usesPrepared
    /\ [][stmt' = stmt]_vars

\* an execution reached newRows under a context that asks for another
\* result mode than the statement's
C40_Witness ==
    /\ callPc = "newRows"
    /\ path = "prepared"
    /\ getResultMode(ctxMode).ok
    /\ getResultMode(ctxMode).val # stmt.resultMode
    /\ isSelectQuery(query)

====
